---- MODULE Spec2Model ----
(***************************************************************************)
(* Model of the OAuth 2.1 authorization server of mcp_video_transcriber:   *)
(* dynamic client registration, /authorize, the three /token grants, the  *)
(* expired-code cleanup and the JWT access tokens.                         *)
(*                                                                         *)
(* Strings are TLA+ strings.  An Optional[str] parameter is a tuple of     *)
(* length 0 (None) or 1 (the value).  Time is a count of clock ticks,      *)
(* TicksPerSecond ticks to the second, so that sub-second instants of      *)
(* time.time() and datetime.utcnow() exist in the model.                   *)
(***************************************************************************)
EXTENDS Integers, Sequences, FiniteSets, TLC

VARIABLES
    now,             \* the wall clock, in ticks
    advances,        \* how many times the clock has been advanced
    minted,          \* how many values secrets.token_urlsafe has produced, per call site
    clients,         \* table oauth_clients: client_id -> row
    auth_codes,      \* table auth_codes: code -> row
    refresh_tokens,  \* table refresh_tokens: token -> row
    grants,          \* history: the successful authorization_code exchanges
    rotations,       \* history: the successful refresh_token exchanges
    reqs,            \* /token requests in flight, one local frame each
    jwts,            \* history: the access tokens create_access_token has made
    verified,        \* the last call of verify_access_token: its token, time and result
    swept            \* the cleanup_expired_codes calls: how many, and the last one's time and count

vars == <<now, advances, minted, clients, auth_codes, refresh_tokens,
          grants, rotations, reqs, jwts, verified, swept>>

-----------------------------------------------------------------------------
(* Bounds of the model *)

MaxClients == 2
MaxCodes == 2
MaxRefresh == 2
MaxAdvances == 1
MaxClockSteps == 2
MaxPkceCodes == 1
MaxRequests == 2
MaxConcRefresh == 3
MaxJwts == 2
MaxSweeps == 2
MaxSweepRequests == 1
TicksPerSecond == 2

-----------------------------------------------------------------------------
(* Configuration: config.py *)

JWT_EXPIRES_MINUTES == 60
AUTH_CODE_EXPIRES_MINUTES == 10
SecondsPerMinute == 60

SERVER_URL == "http://localhost:8000"
JWT_SECRET == "server-signing-key"
DEFAULT_REDIRECT_URIS == <<"http://localhost:3334/callback">>
DEFAULT_GRANT_TYPES == <<"authorization_code", "client_credentials">>
DEFAULT_SCOPE == "video:transcribe projects:read projects:write videos:read"

-----------------------------------------------------------------------------
(* Python values *)

None == <<>>
Some(x) == <<x>>

\* Python truthiness of an Optional[str]: None and "" are both false.
Truthy(o) == o # None /\ o[1] # ""

\* dict.get(key, default) on a request body whose optional keys are Optionals
GetOr(o, default) == IF o = None THEN default ELSE o[1]

Char(s, i) == SubSeq(s, i, i)

IsSpace(c) == c = " "

RECURSIVE SplitFrom(_, _, _)
\* str.split(): the maximal runs of non-blank characters of s, scanning from
\* position i with `word` the run read so far.
SplitFrom(s, i, word) ==
    IF i > Len(s)
    THEN IF word = "" THEN <<>> ELSE <<word>>
    ELSE IF IsSpace(Char(s, i))
         THEN IF word = "" THEN SplitFrom(s, i + 1, "")
                           ELSE <<word>> \o SplitFrom(s, i + 1, "")
         ELSE SplitFrom(s, i + 1, word \o Char(s, i))

Split(s) == SplitFrom(s, 1, "")

RECURSIVE Join(_, _)
\* sep.join(words)
Join(sep, words) ==
    IF words = <<>> THEN ""
    ELSE IF Len(words) = 1 THEN words[1]
    ELSE words[1] \o sep \o Join(sep, Tail(words))

RECURSIVE RStrip(_, _)
\* str.rstrip(c)
RStrip(s, c) ==
    IF s # "" /\ Char(s, Len(s)) = c THEN RStrip(SubSeq(s, 1, Len(s) - 1), c) ELSE s

\* The elements of a sequence
Range(seq) == {seq[i] : i \in DOMAIN seq}

Digits == <<"0", "1", "2", "3", "4", "5", "6", "7", "8", "9">>

RECURSIVE DecStr(_)
DecStr(n) == IF n < 10 THEN Digits[n + 1] ELSE DecStr(n \div 10) \o Digits[(n % 10) + 1]

\* secrets.token_urlsafe(32): the k-th value drawn at the call site `site`
\* ("id", "secret", "code", "rt").  256 random bits: the model takes every
\* draw to differ from every other one.
token_urlsafe(site, k) == site \o "-" \o DecStr(k)

\* time.time()
time == now

\* An HTTPException(status_code, detail)
HTTPException(status, detail) == [status |-> status, detail |-> detail]

-----------------------------------------------------------------------------
(* json.dumps / json.loads of a list of strings: database.py stores          *)
(* redirect_uris and grant_types as JSON text.                              *)

Quote == "\""

json_dumps(list) ==
    "[" \o Join(", ", [i \in DOMAIN list |-> Quote \o list[i] \o Quote]) \o "]"

RECURSIVE LoadsFrom(_, _, _, _)
\* Reads the string literals of the JSON array text s from position i on;
\* inStr says whether position i is inside a literal, cur is the literal so far.
LoadsFrom(s, i, inStr, cur) ==
    IF i > Len(s) THEN <<>>
    ELSE IF inStr
         THEN IF Char(s, i) = Quote
              THEN <<cur>> \o LoadsFrom(s, i + 1, FALSE, "")
              ELSE LoadsFrom(s, i + 1, TRUE, cur \o Char(s, i))
         ELSE LoadsFrom(s, i + 1, Char(s, i) = Quote, "")

json_loads(s) == LoadsFrom(s, 1, FALSE, "")

-----------------------------------------------------------------------------
(* database.py: DatabaseManager.  A table is a function from primary key to *)
(* row; every operation is one committed session.                           *)

Insert(table, key, row) ==
    [k \in DOMAIN table \cup {key} |-> IF k = key THEN row ELSE table[k]]

Remove(table, keys) == [k \in DOMAIN table \ keys |-> table[k]]

\* a create that keeps no row but the new one
CreateClientAlone(table, client_data) ==
    Insert(<<>>, client_data.client_id,
           [client_id |-> client_data.client_id,
            client_secret |-> client_data.client_secret,
            client_name |-> client_data.client_name,
            redirect_uris |-> json_dumps(client_data.redirect_uris),
            grant_types |-> json_dumps(client_data.grant_types),
            scope |-> client_data.scope,
            created_at |-> client_data.created_at])

create_client(table, client_data) ==
    Insert(table, client_data.client_id,
           [client_id |-> client_data.client_id,
            client_secret |-> client_data.client_secret,
            client_name |-> client_data.client_name,
            redirect_uris |-> json_dumps(client_data.redirect_uris),
            grant_types |-> json_dumps(client_data.grant_types),
            scope |-> client_data.scope,
            created_at |-> client_data.created_at])

\* None, or the row.  get_client parses the JSON columns of the row it
\* returns; the model parses a column where the handler reads it
\* (ClientRedirectUris, ClientGrantTypes).
get_client(table, client_id) ==
    IF client_id \in DOMAIN table THEN Some(table[client_id]) ELSE None

ClientRedirectUris(client) == json_loads(client.redirect_uris)

ClientGrantTypes(client) == json_loads(client.grant_types)

\* a create that stores the row without its PKCE columns
CreateAuthCodeWithoutPkce(table, code_data) ==
    Insert(table, code_data.code,
           [code_data EXCEPT !.code_challenge = None, !.code_challenge_method = None])

create_auth_code(table, code_data) == Insert(table, code_data.code, code_data)

get_auth_code(table, code) == IF code \in DOMAIN table THEN Some(table[code]) ELSE None

\* a delete that commits nothing
DeleteNothing(table, key) == table

\* the table after delete_auth_code; its boolean result is DeleteFound
delete_auth_code(table, code) == Remove(table, {code})

create_refresh_token(table, token_data) == Insert(table, token_data.token, token_data)

get_refresh_token(table, token) == IF token \in DOMAIN table THEN Some(table[token]) ELSE None

delete_refresh_token(table, token) == Remove(table, {token})

\* the boolean a delete_* call returns: whether the row was there
DeleteFound(table, key) == key \in DOMAIN table

\* the codes at or past their expiry
CodesExpiredOrExpiring(table, current_time) ==
    {c \in DOMAIN table : table[c].expires_at <= current_time}

\* cleanup_expired_codes: the codes it deletes at time current_time
ExpiredCodes(table, current_time) ==
    {c \in DOMAIN table : table[c].expires_at < current_time}

\* a cleanup that deletes only the first row its query returns
CleanupFirstExpired(table, current_time) ==
    LET expired == ExpiredCodes(table, current_time)
        first == IF expired = {} THEN {} ELSE {CHOOSE c \in expired : TRUE}
    IN [table |-> Remove(table, first), count |-> Cardinality(first)]

cleanup_expired_codes(table, current_time) ==
    [table |-> Remove(table, ExpiredCodes(table, current_time)),
     count |-> Cardinality(ExpiredCodes(table, current_time))]

-----------------------------------------------------------------------------
(* oauth/auth.py: the JWT access tokens.  A token is the record of its      *)
(* payload and of the key that signed it; a string that is no JWT has no    *)
(* payload.  jwt.encode writes a datetime claim as whole seconds since the  *)
(* epoch (calendar.timegm of its utctimetuple), jwt.decode checks the       *)
(* signature, then exp against the current time (expired when exp <= now,   *)
(* no leeway), then the audience.                                           *)

\* timedelta(minutes = m), in ticks
timedelta_minutes(m) == m * SecondsPerMinute * TicksPerSecond

\* calendar.timegm(d.utctimetuple()): the whole seconds of the instant d
timegm(d) == d \div TicksPerSecond

\* the HS256 signature: only the holder of key can make it, and it is of
\* one payload
hmac_sha256(key, payload) == <<key, payload>>

jwt_encode(payload, key) ==
    LET claims == [payload EXCEPT !.exp = timegm(@), !.iat = timegm(@)] IN
    [payload |-> Some(claims), sig |-> hmac_sha256(key, claims)]

\* a token whose expiry is always the configured one
CreateTokenWithConfiguredExpiry(subject, scopes, expires_minutes, utcnow) ==
    jwt_encode([sub |-> subject,
                exp |-> utcnow + timedelta_minutes(JWT_EXPIRES_MINUTES),
                iat |-> utcnow,
                iss |-> SERVER_URL,
                aud |-> SERVER_URL,
                scope |-> Join(" ", scopes),
                token_use |-> "access"],
               JWT_SECRET)

create_access_token(subject, scopes, expires_minutes, utcnow) ==
    jwt_encode([sub |-> subject,
                exp |-> utcnow + timedelta_minutes(GetOr(expires_minutes, JWT_EXPIRES_MINUTES)),
                iat |-> utcnow,
                iss |-> SERVER_URL,
                aud |-> SERVER_URL,
                scope |-> Join(" ", scopes),
                token_use |-> "access"],
               JWT_SECRET)

\* jwt.decode: "ok" with the payload, or the exception class it raises
jwt_decode(token, key, audience, utcnow) ==
    IF token.payload = None
    THEN [error |-> "InvalidTokenError", payload |-> None]
    ELSE IF token.sig # hmac_sha256(key, token.payload[1])
    THEN [error |-> "InvalidTokenError", payload |-> None]
    ELSE IF token.payload[1].exp * TicksPerSecond <= utcnow
    THEN [error |-> "ExpiredSignatureError", payload |-> None]
    ELSE IF token.payload[1].aud # audience
    THEN [error |-> "InvalidTokenError", payload |-> None]
    ELSE [error |-> "ok", payload |-> token.payload]

verify_access_token(token, utcnow) ==
    LET d == jwt_decode(token, JWT_SECRET, SERVER_URL, utcnow) IN
    CASE d.error = "ok" -> [status |-> 200, detail |-> "", payload |-> d.payload]
      [] d.error = "ExpiredSignatureError" ->
            [status |-> 401, detail |-> "Token expired", payload |-> None]
      [] OTHER -> [status |-> 401, detail |-> "Invalid token", payload |-> None]

\* main.py: the response of the application to an HTTPException of status 401
auth_exception_handler(exc) ==
    [status_code |-> 401,
     content |-> [detail |-> exc.detail],
     headers |-> [WWW_Authenticate |->
                     <<"Bearer resource=", SERVER_URL,
                       "/.well-known/oauth-protected-resource">>]]

-----------------------------------------------------------------------------
(* oauth/endpoints.py: the handlers.  A handler is an operator from the     *)
(* tables, the count of random values drawn, the clock and the request to   *)
(* its outcome: the response and the tables it leaves.                      *)

Raise(e, codes, tokens, m) ==
    [status |-> e.status, detail |-> e.detail, body |-> None,
     auth_codes |-> codes, refresh_tokens |-> tokens, minted |-> m]

Return(status, body, codes, tokens, m) ==
    [status |-> status, detail |-> "", body |-> Some(body),
     auth_codes |-> codes, refresh_tokens |-> tokens, minted |-> m]

\* urllib.parse.quote_plus on the characters the requests of the model use
quote_plus_char(c) ==
    CASE c = " " -> "+"
      [] c = "&" -> "%26"
      [] c = "=" -> "%3D"
      [] OTHER -> c

RECURSIVE quote_plus(_)
quote_plus(s) ==
    IF s = "" THEN "" ELSE quote_plus_char(Char(s, 1)) \o quote_plus(SubSeq(s, 2, Len(s)))

\* urllib.parse.urlencode of a list of <<key, value>> pairs
urlencode(params) ==
    Join("&", [i \in DOMAIN params |->
                 quote_plus(params[i][1]) \o "=" \o quote_plus(params[i][2])])

\* the default of authorize's scope parameter: Config.DEFAULT_SCOPE.split()[0]
FirstDefaultScope == Split(DEFAULT_SCOPE)[1]

\* POST /register
register_client(clientsT, m, t, data) ==
    LET client_id == token_urlsafe("id", m + 1)
        client_secret == token_urlsafe("secret", m + 1)
        client_info == [client_id |-> client_id,
                        client_secret |-> client_secret,
                        client_name |-> GetOr(data.client_name, "MCP Client"),
                        redirect_uris |-> GetOr(data.redirect_uris, DEFAULT_REDIRECT_URIS),
                        grant_types |-> GetOr(data.grant_types, DEFAULT_GRANT_TYPES),
                        scope |-> GetOr(data.scope, DEFAULT_SCOPE),
                        created_at |-> t]
    IN [status |-> 200, detail |-> "",
        body |-> Some([client_id |-> client_id,
                       client_secret |-> client_secret,
                       client_name |-> client_info.client_name,
                       redirect_uris |-> client_info.redirect_uris,
                       grant_types |-> client_info.grant_types,
                       scope |-> client_info.scope]),
        clients |-> create_client(clientsT, client_info),
        minted |-> m + 1]

\* a match by prefix: the request's URI starts with a registered one
RedirectUriStartsWithRegistered(redirect_uri, client) ==
    \E u \in Range(ClientRedirectUris(client)) :
        Len(redirect_uri) >= Len(u) /\ SubSeq(redirect_uri, 1, Len(u)) = u

\* `redirect_uri not in client["redirect_uris"]`: membership in the list
RedirectUriRegistered(redirect_uri, client) ==
    redirect_uri \in Range(ClientRedirectUris(client))

\* GET /authorize
authorize(clientsT, codes, tokens, m, t, req) ==
    LET client == get_client(clientsT, req.client_id) IN
    IF client = None
    THEN Raise(HTTPException(400, "Invalid client_id"), codes, tokens, m)
    ELSE IF ~RedirectUriRegistered(req.redirect_uri, client[1])
    THEN Raise(HTTPException(400, "Invalid redirect_uri"), codes, tokens, m)
    ELSE
      LET auth_code == token_urlsafe("code", m + 1)
          code_data == [code |-> auth_code,
                        client_id |-> req.client_id,
                        redirect_uri |-> req.redirect_uri,
                        scope |-> GetOr(req.scope, FirstDefaultScope),
                        code_challenge |-> req.code_challenge,
                        code_challenge_method |-> req.code_challenge_method,
                        created_at |-> t,
                        expires_at |-> t + AUTH_CODE_EXPIRES_MINUTES * SecondsPerMinute
                                              * TicksPerSecond]
          params == <<<<"code", auth_code>>>>
                    \o (IF Truthy(req.state) THEN <<<<"state", req.state[1]>>>> ELSE <<>>)
      IN Return(307, [url |-> req.redirect_uri \o "?" \o urlencode(params)],
                create_auth_code(codes, code_data), tokens, m + 1)

\* base64.urlsafe_b64encode(hashlib.sha256(v.encode()).digest()).decode():
\* the true values, on the verifiers the requests of the model present
sha256_b64(v) ==
    CASE v = "abc123" -> "bKE9UspwyIPg8LsQHkJaiehiTeUdstI5JZOvaoQRgJA="
      [] v = "xyz789" -> "WkZAwX6OSevMciNMzpZE3Kz7wsU-Am9ZKByjOSi-1S0="
      [] v = "bKE9UspwyIPg8LsQHkJaiehiTeUdstI5JZOvaoQRgJA" ->
             "PseQwhFJYEkbSN6vet9Apb3cQwzAHBdW2FUpccwrUSg="

\* the hash with its base64 padding left on
PaddedVerifierHash(code_verifier) == sha256_b64(code_verifier)

\* verifier_hash of _handle_authorization_code_grant
verifier_hash(code_verifier) == RStrip(sha256_b64(code_verifier), "=")

\* "Validate PKCE if provided": None when the checks pass, else the exception
ValidatePkce(auth_info, code_verifier) ==
    IF Truthy(auth_info.code_challenge)
    THEN IF ~Truthy(code_verifier)
         THEN Some(HTTPException(400, "Code verifier required"))
         ELSE IF auth_info.code_challenge_method = Some("S256")
                 /\ verifier_hash(code_verifier[1]) # auth_info.code_challenge[1]
         THEN Some(HTTPException(400, "Invalid code verifier"))
         ELSE None
    ELSE None

\* an expiry test that grants a second of grace
CodeExpiredAfterGrace(auth_info, t) == t > auth_info.expires_at + TicksPerSecond

\* `time.time() > auth_info["expires_at"]`
CodeExpired(auth_info, t) == t > auth_info.expires_at

\* the body of a /token success
TokenResponse(access_token, refresh_token, scope) ==
    [access_token |-> access_token,
     token_type |-> "Bearer",
     expires_in |-> JWT_EXPIRES_MINUTES * SecondsPerMinute,
     refresh_token |-> refresh_token,
     scope |-> scope]

\* a row bound to the client the code was issued to
TokenDataForCodeClient(refresh_token_value, client_id, auth_info, t) ==
    [token |-> refresh_token_value,
     client_id |-> auth_info.client_id,
     scope |-> auth_info.scope,
     created_at |-> t]

\* the row _handle_authorization_code_grant stores for the refresh token
CodeGrantTokenData(refresh_token_value, client_id, auth_info, t) ==
    [token |-> refresh_token_value,
     client_id |-> client_id,
     scope |-> auth_info.scope,
     created_at |-> t]

\* an exchange that deletes the code when its PKCE check fails
ExchangeConsumingCodeOnPkceFailure(codes, tokens, m, t, code, client_id, redirect_uri, code_verifier) ==
    IF ~Truthy(code)
    THEN Raise(HTTPException(400, "Invalid authorization code"), codes, tokens, m)
    ELSE
      LET auth_info == get_auth_code(codes, code[1]) IN
      IF auth_info = None
      THEN Raise(HTTPException(400, "Invalid authorization code"), codes, tokens, m)
      ELSE IF CodeExpired(auth_info[1], t)
      THEN Raise(HTTPException(400, "Authorization code expired"),
                 delete_auth_code(codes, code[1]), tokens, m)
      ELSE IF ValidatePkce(auth_info[1], code_verifier) # None
      THEN Raise(ValidatePkce(auth_info[1], code_verifier)[1],
                 delete_auth_code(codes, code[1]), tokens, m)
      ELSE
        LET scopes == Split(auth_info[1].scope)
            access_token == create_access_token(client_id, scopes, None, t)
            refresh_token_value == token_urlsafe("rt", m + 1)
            token_data == CodeGrantTokenData(refresh_token_value, client_id, auth_info[1], t)
        IN Return(200,
                  TokenResponse(access_token, Some(refresh_token_value), auth_info[1].scope),
                  delete_auth_code(codes, code[1]),
                  create_refresh_token(tokens, token_data),
                  m + 1)

_handle_authorization_code_grant(codes, tokens, m, t, code, client_id, redirect_uri, code_verifier) ==
    IF ~Truthy(code)
    THEN Raise(HTTPException(400, "Invalid authorization code"), codes, tokens, m)
    ELSE
      LET auth_info == get_auth_code(codes, code[1]) IN
      IF auth_info = None
      THEN Raise(HTTPException(400, "Invalid authorization code"), codes, tokens, m)
      ELSE IF CodeExpired(auth_info[1], t)
      THEN Raise(HTTPException(400, "Authorization code expired"),
                 delete_auth_code(codes, code[1]), tokens, m)
      ELSE IF ValidatePkce(auth_info[1], code_verifier) # None
      THEN Raise(ValidatePkce(auth_info[1], code_verifier)[1], codes, tokens, m)
      ELSE
        LET scopes == Split(auth_info[1].scope)
            access_token == create_access_token(client_id, scopes, None, t)
            refresh_token_value == token_urlsafe("rt", m + 1)
            token_data == CodeGrantTokenData(refresh_token_value, client_id, auth_info[1], t)
        IN Return(200,
                  TokenResponse(access_token, Some(refresh_token_value), auth_info[1].scope),
                  delete_auth_code(codes, code[1]),
                  create_refresh_token(tokens, token_data),
                  m + 1)

\* a grant that falls back on the whole default scope
ClientCredentialsWithWholeDefault(codes, tokens, m, t, client_id, scope) ==
    LET request_scope == IF Truthy(scope) THEN scope[1] ELSE DEFAULT_SCOPE
        scopes == Split(request_scope)
        access_token == create_access_token(client_id, scopes, None, t)
    IN [status |-> 200, detail |-> "",
        body |-> Some([access_token |-> access_token,
                       token_type |-> "Bearer",
                       expires_in |-> JWT_EXPIRES_MINUTES * SecondsPerMinute,
                       refresh_token |-> None,
                       scope |-> request_scope]),
        auth_codes |-> codes, refresh_tokens |-> tokens, minted |-> m]

_handle_client_credentials_grant(codes, tokens, m, t, client_id, scope) ==
    LET request_scope == IF Truthy(scope) THEN scope[1] ELSE FirstDefaultScope
        scopes == Split(request_scope)
        access_token == create_access_token(client_id, scopes, None, t)
    IN Return(200, TokenResponse(access_token, None, request_scope), codes, tokens, m)

\* the row _handle_refresh_token_grant stores for the new refresh token
RefreshGrantTokenData(new_refresh_token, client_id, token_info, t) ==
    [token |-> new_refresh_token,
     client_id |-> client_id,
     scope |-> token_info.scope,
     created_at |-> t]

\* a check that lets any authenticated client present the token
RefreshTokenOfAnyClient(token_info, client_id) == TRUE

\* `token_info["client_id"] != client_id`, negated
RefreshTokenOfClient(token_info, client_id) == token_info.client_id = client_id

_handle_refresh_token_grant(codes, tokens, m, t, refresh_token, client_id) ==
    IF ~Truthy(refresh_token)
    THEN Raise(HTTPException(400, "Invalid refresh token"), codes, tokens, m)
    ELSE
      LET token_info == get_refresh_token(tokens, refresh_token[1]) IN
      IF token_info = None
      THEN Raise(HTTPException(400, "Invalid refresh token"), codes, tokens, m)
      ELSE IF ~RefreshTokenOfClient(token_info[1], client_id)
      THEN Raise(HTTPException(400, "Invalid refresh token"), codes, tokens, m)
      ELSE
        LET scopes == Split(token_info[1].scope)
            access_token == create_access_token(client_id, scopes, None, t)
            new_refresh_token == token_urlsafe("rt", m + 1)
            new_token_data == RefreshGrantTokenData(new_refresh_token, client_id,
                                                    token_info[1], t)
        IN Return(200,
                  TokenResponse(access_token, Some(new_refresh_token), token_info[1].scope),
                  codes,
                  create_refresh_token(delete_refresh_token(tokens, refresh_token[1]),
                                       new_token_data),
                  m + 1)

\* "Validate client credentials" of token_endpoint: None, or the exception
ValidateClient(clientsT, client_id, client_secret) ==
    LET client == get_client(clientsT, client_id) IN
    IF client = None
    THEN Some(HTTPException(400, "Invalid client"))
    ELSE IF client[1].client_secret # client_secret
    THEN Some(HTTPException(400, "Invalid client credentials"))
    ELSE None

\* a dispatch on grant_type that never looks at the client's credentials
DispatchWithoutAuthentication(clientsT, codes, tokens, m, t, req) ==
    IF req.grant_type = "authorization_code"
    THEN _handle_authorization_code_grant(codes, tokens, m, t, req.code, req.client_id,
                                          req.redirect_uri, req.code_verifier)
    ELSE IF req.grant_type = "client_credentials"
    THEN _handle_client_credentials_grant(codes, tokens, m, t, req.client_id, req.scope)
    ELSE IF req.grant_type = "refresh_token"
    THEN _handle_refresh_token_grant(codes, tokens, m, t, req.refresh_token, req.client_id)
    ELSE Raise(HTTPException(400, "Unsupported grant type"), codes, tokens, m)

\* POST /token
token_endpoint(clientsT, codes, tokens, m, t, req) ==
    IF ValidateClient(clientsT, req.client_id, req.client_secret) # None
    THEN Raise(ValidateClient(clientsT, req.client_id, req.client_secret)[1],
               codes, tokens, m)
    ELSE IF req.grant_type = "authorization_code"
    THEN _handle_authorization_code_grant(codes, tokens, m, t, req.code, req.client_id,
                                          req.redirect_uri, req.code_verifier)
    ELSE IF req.grant_type = "client_credentials"
    THEN _handle_client_credentials_grant(codes, tokens, m, t, req.client_id, req.scope)
    ELSE IF req.grant_type = "refresh_token"
    THEN _handle_refresh_token_grant(codes, tokens, m, t, req.refresh_token, req.client_id)
    ELSE Raise(HTTPException(400, "Unsupported grant type"), codes, tokens, m)

-----------------------------------------------------------------------------
(* The requests of the model *)

AuthCodeTTL == AUTH_CODE_EXPIRES_MINUTES * SecondsPerMinute * TicksPerSecond

RegisterBodies ==
    [client_name : {None},
     redirect_uris : {None, Some(<<"https://app.test/cb">>)},
     grant_types : {None},
     scope : {None}]

\* registered and unregistered redirect URIs, some a prefix or an extension
\* of a registered one
RedirectUriInputs ==
    {"http://localhost:3334/callback", "https://app.test/cb", "https://app.test/cb/evil",
     "https://app.test"}

ClientIdInputs == DOMAIN clients \cup {"unknown"}

AuthorizeRequests ==
    [response_type : {"code"},
     client_id : ClientIdInputs,
     redirect_uri : RedirectUriInputs,
     scope : {None, Some("projects:read")},
     state : {None},
     code_challenge : {None},
     code_challenge_method : {None}]

\* every code /authorize has handed out so far, and one it never did
CodeInputs == {token_urlsafe("code", k) : k \in 1..minted.code} \cup {"bogus"}

\* every refresh token handed out so far, and one that never was
RefreshTokenInputs == {token_urlsafe("rt", k) : k \in 1..minted.rt} \cup {"bogus"}

SecretInputs == {clients[c].client_secret : c \in DOMAIN clients} \cup {"guess"}

\* client_id and client_secret as issued together by /register
GoodCredentials == {<<c, clients[c].client_secret>> : c \in DOMAIN clients}

\* any other pairing: an unregistered id, a guessed secret, another client's secret
BadCredentials == (ClientIdInputs \X SecretInputs) \ GoodCredentials

GrantTypeInputs == {"authorization_code", "client_credentials", "refresh_token", "password"}

TokenRequest(grant_type, cred, code, redirect_uri, code_verifier, refresh_token, scope) ==
    [grant_type |-> grant_type, client_id |-> cred[1], client_secret |-> cred[2],
     code |-> code, redirect_uri |-> redirect_uri, code_verifier |-> code_verifier,
     refresh_token |-> refresh_token, scope |-> scope]

CodeGrantRequests ==
    {TokenRequest("authorization_code", cred, code, Some(u), None, None, None) :
        cred \in GoodCredentials,
        code \in {None} \cup {Some(x) : x \in CodeInputs},
        u \in {"http://localhost:3334/callback", "https://app.test/cb"}}

RefreshGrantRequests ==
    {TokenRequest("refresh_token", cred, None, None, None, rt, None) :
        cred \in GoodCredentials,
        rt \in {None} \cup {Some(x) : x \in RefreshTokenInputs}}

OtherGrantRequests ==
    {TokenRequest(g, cred, None, None, None, None, sc) :
        g \in {"client_credentials", "password"},
        cred \in GoodCredentials,
        sc \in {None, Some("projects:read")}}

\* requests whose credentials are wrong, of every grant type, each carrying
\* the newest code and refresh token
BadCredentialRequests ==
    {TokenRequest(g, cred, Some(token_urlsafe("code", minted.code)),
                  Some("http://localhost:3334/callback"), None,
                  Some(token_urlsafe("rt", minted.rt)), None) :
        g \in GrantTypeInputs, cred \in BadCredentials}

TokenRequests ==
    CodeGrantRequests \cup RefreshGrantRequests \cup OtherGrantRequests
        \cup BadCredentialRequests

-----------------------------------------------------------------------------------------------------------------------------------------------------
(* The history the claims speak of *)

IsCodeGrantSuccess(req, out) == out.status = 200 /\ req.grant_type = "authorization_code"

IsRefreshGrantSuccess(req, out) == out.status = 200 /\ req.grant_type = "refresh_token"

\* the successful authorization_code exchanges: the code, the client that
\* presented it with which redirect_uri and code_verifier, the refresh token
\* and the scope it was given, and the client, redirect_uri and PKCE
\* challenge the code was stored with
GrantsAfter(req, out) ==
    IF IsCodeGrantSuccess(req, out)
    THEN grants \cup {[code |-> req.code[1],
                       client_id |-> req.client_id,
                       redirect_uri |-> req.redirect_uri,
                       code_verifier |-> req.code_verifier,
                       refresh_token |-> out.body[1].refresh_token[1],
                       scope |-> out.body[1].scope,
                       code_challenge |-> auth_codes[req.code[1]].code_challenge,
                       code_challenge_method |->
                           auth_codes[req.code[1]].code_challenge_method,
                       code_client_id |-> auth_codes[req.code[1]].client_id,
                       code_redirect_uri |-> auth_codes[req.code[1]].redirect_uri]}
    ELSE grants

\* the successful refresh_token exchanges: the token presented and its successor
RotationsAfter(req, out) ==
    IF IsRefreshGrantSuccess(req, out)
    THEN rotations \cup {[old |-> req.refresh_token[1],
                          new |-> out.body[1].refresh_token[1]]}
    ELSE rotations

-----------------------------------------------------------------------------
(* The server handling one request at a time: every handler runs to its     *)
(* response before the next request is taken.                               *)

Init ==
    /\ now = 0
    /\ advances = 0
    /\ minted = [client |-> 0, code |-> 0, rt |-> 0]
    /\ clients = <<>>
    /\ auth_codes = <<>>
    /\ refresh_tokens = <<>>
    /\ grants = {}
    /\ rotations = {}
    /\ reqs = <<>>
    /\ jwts = {}
    /\ verified = None
    /\ swept = [runs |-> 0, at |-> 0, count |-> 0]

Register(data) ==
    \E out \in {register_client(clients, minted.client, time, data)} :
    /\ out.minted <= MaxClients
    /\ clients' = out.clients
    /\ minted' = [minted EXCEPT !.client = out.minted]
    /\ UNCHANGED <<now, advances, auth_codes, refresh_tokens, grants, rotations, reqs, jwts, verified, swept>>

Authorize(req) ==
    \E out \in {authorize(clients, auth_codes, refresh_tokens, minted.code, time, req)} :
    /\ out.minted <= MaxCodes
    /\ auth_codes' = out.auth_codes
    /\ minted' = [minted EXCEPT !.code = out.minted]
    /\ UNCHANGED <<now, advances, clients, refresh_tokens, grants, rotations, reqs, jwts, verified, swept>>

Token(req) ==
    \E out \in {token_endpoint(clients, auth_codes, refresh_tokens, minted.rt, time, req)} :
    /\ out.minted <= MaxRefresh
    /\ auth_codes' = out.auth_codes
    /\ refresh_tokens' = out.refresh_tokens
    /\ minted' = [minted EXCEPT !.rt = out.minted]
    /\ grants' = GrantsAfter(req, out)
    /\ rotations' = RotationsAfter(req, out)
    /\ UNCHANGED <<now, advances, clients, reqs, jwts, verified, swept>>

\* main.py lifespan: the cleanup run at startup
Sweep ==
    /\ auth_codes' = cleanup_expired_codes(auth_codes, time).table
    /\ UNCHANGED <<now, advances, minted, clients, refresh_tokens, grants, rotations,
                   reqs, jwts, verified, swept>>

AdvanceClock(d) ==
    /\ advances < MaxAdvances
    /\ now' = now + d
    /\ advances' = advances + 1
    /\ UNCHANGED <<minted, clients, auth_codes, refresh_tokens, grants, rotations, reqs, jwts, verified, swept>>

Next ==
    \/ \E data \in RegisterBodies : Register(data)
    \/ \E req \in AuthorizeRequests : Authorize(req)
    \/ \E req \in TokenRequests : Token(req)
    \/ Sweep
    \/ AdvanceClock(AuthCodeTTL + 1)

Spec == Init /\ [][Next]_vars

-----------------------------------------------------------------------------
(* The same server, for one client and requests that use PKCE, with the     *)
(* clock stepping to the instants just before, at and just after a code's   *)
(* expiry.                                                                  *)

DefaultRegisterBody ==
    [client_name |-> None, redirect_uris |-> None, grant_types |-> None, scope |-> None]

\* code_challenge and code_challenge_method as sent to /authorize: none; the
\* empty challenge; base64url(sha256("abc123")) stripped and unstripped and
\* the verifier itself, for S256; the stripped hash for "plain" and for no
\* method
PkceChallengeInputs ==
    {<<None, None>>,
     <<Some(""), Some("S256")>>,
     <<Some("bKE9UspwyIPg8LsQHkJaiehiTeUdstI5JZOvaoQRgJA"), Some("S256")>>,
     <<Some("bKE9UspwyIPg8LsQHkJaiehiTeUdstI5JZOvaoQRgJA="), Some("S256")>>,
     <<Some("abc123"), Some("S256")>>,
     <<Some("bKE9UspwyIPg8LsQHkJaiehiTeUdstI5JZOvaoQRgJA"), Some("plain")>>,
     <<Some("bKE9UspwyIPg8LsQHkJaiehiTeUdstI5JZOvaoQRgJA"), None>>}

\* no verifier (an empty form field reaches the handler as None), the right
\* one, a wrong one, and the stored challenge itself
PkceVerifierInputs ==
    {None, Some("abc123"), Some("xyz789"),
     Some("bKE9UspwyIPg8LsQHkJaiehiTeUdstI5JZOvaoQRgJA")}

PkceAuthorizeRequests ==
    {[response_type |-> "code",
      client_id |-> c,
      redirect_uri |-> "http://localhost:3334/callback",
      scope |-> None,
      state |-> None,
      code_challenge |-> p[1],
      code_challenge_method |-> p[2]] : c \in DOMAIN clients, p \in PkceChallengeInputs}

PkceAuthorize(req) == minted.code < MaxPkceCodes /\ Authorize(req)

PkceTokenRequests ==
    {TokenRequest("authorization_code", cred, Some(code),
                  Some("http://localhost:3334/callback"), v, None, None) :
        cred \in GoodCredentials, code \in CodeInputs, v \in PkceVerifierInputs}

PkceRegister == minted.client = 0 /\ Register(DefaultRegisterBody)

ClockStep(d) ==
    /\ advances < MaxClockSteps
    /\ now' = now + d
    /\ advances' = advances + 1
    /\ UNCHANGED <<minted, clients, auth_codes, refresh_tokens, grants, rotations, reqs, jwts, verified, swept>>

NextPkce ==
    \/ PkceRegister
    \/ \E req \in PkceAuthorizeRequests : PkceAuthorize(req)
    \/ \E req \in PkceTokenRequests : Token(req)
    \/ Sweep
    \/ \E d \in {1, AuthCodeTTL} : ClockStep(d)

SpecPkce == Init /\ [][NextPkce]_vars

-----------------------------------------------------------------------------
(* The server handling /token requests concurrently: a request in flight is *)
(* a frame holding the request, the store operation it is about to make and *)
(* the locals of its handler.  Each store operation (one session, one       *)
(* commit) is one step; requests in flight take their steps in any order.   *)

\* the least free slot for a request, if any
FreeSlots == {s \in 1..MaxRequests : s \notin DOMAIN reqs /\ \A r \in 1..(s - 1) : r \in DOMAIN reqs}

Frame(req) ==
    [req |-> req, pc |-> "get_client", began |-> now, auth_info |-> None,
     token_info |-> None, issued |-> None]

\* the handler of slot s moves on to its next store operation
Goto(s, pc) == [reqs EXCEPT ![s].pc = pc]

\* the handler of slot s returns or raises: the request is no longer in flight
Finish(s) == [r \in DOMAIN reqs \ {s} |-> reqs[r]]

\* the refresh tokens some response has handed out, and one that never was
HandedOutRefreshTokens ==
    {g.refresh_token : g \in grants} \cup {r.new : r \in rotations} \cup {"bogus"}

ConcTokenRequests ==
    {TokenRequest("authorization_code", cred, Some(code),
                  Some("http://localhost:3334/callback"), None, None, None) :
        cred \in GoodCredentials, code \in CodeInputs}
    \cup {TokenRequest("refresh_token", cred, None, None, None, Some(rt), None) :
        cred \in GoodCredentials, rt \in HandedOutRefreshTokens}

Arrive(req) ==
    \E s \in FreeSlots :
    /\ reqs' = [r \in DOMAIN reqs \cup {s} |-> IF r = s THEN Frame(req) ELSE reqs[r]]
    /\ UNCHANGED <<now, advances, minted, clients, auth_codes, refresh_tokens, grants,
                   rotations, jwts, verified, swept>>

\* token_endpoint up to the first store operation of the grant's handler
GetClient(s) ==
    /\ s \in DOMAIN reqs
    /\ reqs[s].pc = "get_client"
    /\ \E req \in {reqs[s].req} :
       reqs' = IF ValidateClient(clients, req.client_id, req.client_secret) # None
               THEN Finish(s)
               ELSE IF req.grant_type = "authorization_code" /\ Truthy(req.code)
               THEN Goto(s, "get_auth_code")
               ELSE IF req.grant_type = "refresh_token" /\ Truthy(req.refresh_token)
               THEN Goto(s, "get_refresh_token")
               ELSE Finish(s)
    /\ UNCHANGED <<now, advances, minted, clients, auth_codes, refresh_tokens, grants,
                   rotations, jwts, verified, swept>>

\* _handle_authorization_code_grant: get_auth_code and the checks on the row
GetAuthCode(s) ==
    /\ s \in DOMAIN reqs
    /\ reqs[s].pc = "get_auth_code"
    /\ \E req \in {reqs[s].req} :
       \E auth_info \in {get_auth_code(auth_codes, req.code[1])} :
       reqs' = IF auth_info = None
               THEN Finish(s)
               ELSE IF CodeExpired(auth_info[1], time)
               THEN [reqs EXCEPT ![s].pc = "delete_expired_code"]
               ELSE IF ValidatePkce(auth_info[1], req.code_verifier) # None
               THEN Finish(s)
               ELSE [reqs EXCEPT ![s].pc = "create_refresh_token",
                                 ![s].auth_info = auth_info]
    /\ UNCHANGED <<now, advances, minted, clients, auth_codes, refresh_tokens, grants,
                   rotations, jwts, verified, swept>>

\* ... the delete_auth_code of an expired code, then "Authorization code expired"
DeleteExpiredCode(s) ==
    /\ s \in DOMAIN reqs
    /\ reqs[s].pc = "delete_expired_code"
    /\ auth_codes' = delete_auth_code(auth_codes, reqs[s].req.code[1])
    /\ reqs' = Finish(s)
    /\ UNCHANGED <<now, advances, minted, clients, refresh_tokens, grants, rotations, jwts, verified, swept>>

\* ... "Generate tokens" and "Store refresh token"
StoreRefreshToken(s) ==
    /\ s \in DOMAIN reqs
    /\ reqs[s].pc = "create_refresh_token"
    /\ minted.rt < MaxConcRefresh
    /\ \E refresh_token_value \in {token_urlsafe("rt", minted.rt + 1)} :
       /\ refresh_tokens' =
             create_refresh_token(refresh_tokens,
                 CodeGrantTokenData(refresh_token_value, reqs[s].req.client_id,
                                    reqs[s].auth_info[1], time))
       /\ reqs' = [reqs EXCEPT ![s].pc = "delete_auth_code",
                               ![s].issued = Some(refresh_token_value)]
    /\ minted' = [minted EXCEPT !.rt = @ + 1]
    /\ UNCHANGED <<now, advances, clients, auth_codes, grants, rotations, jwts, verified, swept>>

\* the record of a successful exchange made by the request of a frame
GrantOf(frame) ==
    [code |-> frame.req.code[1],
     client_id |-> frame.req.client_id,
     redirect_uri |-> frame.req.redirect_uri,
     code_verifier |-> frame.req.code_verifier,
     refresh_token |-> frame.issued[1],
     scope |-> frame.auth_info[1].scope,
     code_challenge |-> frame.auth_info[1].code_challenge,
     code_challenge_method |-> frame.auth_info[1].code_challenge_method,
     code_client_id |-> frame.auth_info[1].client_id,
     code_redirect_uri |-> frame.auth_info[1].redirect_uri]

\* ... "Clean up authorization code" (whether a row was deleted is not
\* looked at) and the return of the tokens
CleanUpAuthCode(s) ==
    /\ s \in DOMAIN reqs
    /\ reqs[s].pc = "delete_auth_code"
    /\ auth_codes' = delete_auth_code(auth_codes, reqs[s].req.code[1])
    /\ grants' = grants \cup {GrantOf(reqs[s])}
    /\ reqs' = Finish(s)
    /\ UNCHANGED <<now, advances, minted, clients, refresh_tokens, rotations, jwts, verified, swept>>

\* _handle_refresh_token_grant: get_refresh_token and the checks on the row
GetRefreshToken(s) ==
    /\ s \in DOMAIN reqs
    /\ reqs[s].pc = "get_refresh_token"
    /\ \E req \in {reqs[s].req} :
       \E token_info \in {get_refresh_token(refresh_tokens, req.refresh_token[1])} :
       reqs' = IF token_info = None
               THEN Finish(s)
               ELSE IF ~RefreshTokenOfClient(token_info[1], req.client_id)
               THEN Finish(s)
               ELSE [reqs EXCEPT ![s].pc = "delete_refresh_token",
                                 ![s].token_info = token_info]
    /\ UNCHANGED <<now, advances, minted, clients, auth_codes, refresh_tokens, grants,
                   rotations, jwts, verified, swept>>

\* ... "Update refresh token": the delete (its result is not looked at)
DeleteRefreshToken(s) ==
    /\ s \in DOMAIN reqs
    /\ reqs[s].pc = "delete_refresh_token"
    /\ refresh_tokens' = delete_refresh_token(refresh_tokens, reqs[s].req.refresh_token[1])
    /\ reqs' = Goto(s, "create_new_refresh_token")
    /\ UNCHANGED <<now, advances, minted, clients, auth_codes, grants, rotations, jwts, verified, swept>>

\* ... the create of the successor and the return of the tokens
CreateNewRefreshToken(s) ==
    /\ s \in DOMAIN reqs
    /\ reqs[s].pc = "create_new_refresh_token"
    /\ minted.rt < MaxConcRefresh
    /\ \E new_refresh_token \in {token_urlsafe("rt", minted.rt + 1)} :
       /\ refresh_tokens' =
             create_refresh_token(refresh_tokens,
                 RefreshGrantTokenData(new_refresh_token, reqs[s].req.client_id,
                                       reqs[s].token_info[1], time))
       /\ rotations' = rotations \cup {[old |-> reqs[s].req.refresh_token[1],
                                        new |-> new_refresh_token]}
    /\ minted' = [minted EXCEPT !.rt = @ + 1]
    /\ reqs' = Finish(s)
    /\ UNCHANGED <<now, advances, clients, auth_codes, grants, jwts, verified, swept>>

ConcAuthorizeRequests ==
    [response_type : {"code"},
     client_id : DOMAIN clients,
     redirect_uri : {"http://localhost:3334/callback"},
     scope : {None},
     state : {None},
     code_challenge : {None},
     code_challenge_method : {None}]

NextConc ==
    \/ PkceRegister
    \/ \E req \in ConcAuthorizeRequests : Authorize(req)
    \/ \E req \in ConcTokenRequests : Arrive(req)
    \/ \E s \in 1..MaxRequests : GetClient(s)
    \/ \E s \in 1..MaxRequests : GetAuthCode(s)
    \/ \E s \in 1..MaxRequests : DeleteExpiredCode(s)
    \/ \E s \in 1..MaxRequests : StoreRefreshToken(s)
    \/ \E s \in 1..MaxRequests : CleanUpAuthCode(s)
    \/ \E s \in 1..MaxRequests : GetRefreshToken(s)
    \/ \E s \in 1..MaxRequests : DeleteRefreshToken(s)
    \/ \E s \in 1..MaxRequests : CreateNewRefreshToken(s)
    \/ AdvanceClock(AuthCodeTTL + 1)

SpecConc == Init /\ [][NextConc]_vars

-----------------------------------------------------------------------------
(* The access tokens alone: tokens are made, the clock moves to the instants *)
(* around their expiry, and tokens, genuine and not, are verified.           *)

ExpiresMinutesInputs == {None, Some(1)}

\* create_access_token(subject, scopes, expires_minutes)
Issue(subject, scopes, expires_minutes) ==
    /\ Cardinality(jwts) < MaxJwts
    /\ jwts' = jwts \cup {[token |-> create_access_token(subject, scopes, expires_minutes,
                                                         now),
                           subject |-> subject,
                           expires_minutes |-> expires_minutes,
                           issued_at |-> now]}
    /\ UNCHANGED <<now, advances, minted, clients, auth_codes, refresh_tokens, grants,
                   rotations, reqs, verified, swept>>

\* a genuine token whose signature was made with another key
BadSignature(token) == [token EXCEPT !.sig = hmac_sha256("another-key", token.payload[1])]

\* a genuine token whose exp was pushed a day ahead, the signature left as it was
PushedExpiry(token) ==
    [token EXCEPT !.payload = Some([token.payload[1] EXCEPT !.exp = @ + 86400])]

\* a token signed with the server's key for another audience
WrongAudience(token) ==
    jwt_encode([token.payload[1] EXCEPT !.aud = "https://other.example",
                                        !.exp = @ * TicksPerSecond,
                                        !.iat = @ * TicksPerSecond],
               JWT_SECRET)

\* a string that is no JWT
Malformed == [payload |-> None, sig |-> <<>>]

\* get_current_user: the bearer token of a request is verified
Verify(token) ==
    /\ verified' = Some([token |-> token, at |-> now,
                         result |-> verify_access_token(token, now)])
    /\ UNCHANGED <<now, advances, minted, clients, auth_codes, refresh_tokens, grants,
                   rotations, reqs, jwts, swept>>

\* the steps of the clock: half a second... , to just before a token's expiry
SignerClockSteps ==
    {1, timedelta_minutes(1) - 1, timedelta_minutes(JWT_EXPIRES_MINUTES) - 1}

NextSigner ==
    \/ \E m \in ExpiresMinutesInputs : Issue("id-1", <<"projects:read">>, m)
    \/ \E j \in jwts : Verify(j.token)
    \/ \E j \in jwts : Verify(BadSignature(j.token))
    \/ \E j \in jwts : Verify(PushedExpiry(j.token))
    \/ \E j \in jwts : Verify(WrongAudience(j.token))
    \/ Verify(Malformed)
    \/ \E d \in SignerClockSteps : ClockStep(d)

SpecSigner == Init /\ [][NextSigner]_vars

-----------------------------------------------------------------------------
(* The same server, for clients registered with and without a scope of      *)
(* their own, /authorize requests of every response_type and scope, and the *)
(* three grants.                                                            *)

ScopeRegisterBodies ==
    [client_name : {None},
     redirect_uris : {None},
     grant_types : {None},
     scope : {None, Some("projects:read")}]

\* no scope, two scopes separated by two spaces, and a scope no client
\* registered
ScopeInputs == {None, Some("projects:read  videos:read"), Some("admin")}

\* the response_type the server advertises, with every scope, and another
ResponseTypeInputs == {<<"code", sc>> : sc \in ScopeInputs} \cup {<<"token", None>>}

ScopeAuthorizeRequests ==
    {[response_type |-> rt[1],
      client_id |-> c,
      redirect_uri |-> "http://localhost:3334/callback",
      scope |-> rt[2],
      state |-> None,
      code_challenge |-> None,
      code_challenge_method |-> None] : rt \in ResponseTypeInputs, c \in DOMAIN clients}

ScopeCodeGrantRequests ==
    {TokenRequest("authorization_code", cred, Some(code),
                  Some("http://localhost:3334/callback"), None, None, None) :
        cred \in GoodCredentials, code \in CodeInputs}

ScopeRefreshGrantRequests ==
    {TokenRequest("refresh_token", cred, None, None, None, Some(rt), None) :
        cred \in GoodCredentials, rt \in RefreshTokenInputs}

ClientCredentialsRequests ==
    {TokenRequest("client_credentials", cred, None, None, None, None, sc) :
        cred \in GoodCredentials, sc \in ScopeInputs}

ScopeTokenRequests ==
    ScopeCodeGrantRequests \cup ScopeRefreshGrantRequests \cup ClientCredentialsRequests

NextScope ==
    \/ \E data \in ScopeRegisterBodies : Register(data)
    \/ \E req \in ScopeAuthorizeRequests : PkceAuthorize(req)
    \/ \E req \in ScopeTokenRequests : Token(req)

SpecScope == Init /\ [][NextScope]_vars

-----------------------------------------------------------------------------
(* The cleanup of expired codes: one client, codes issued at different      *)
(* instants, the clock stepping to the instants around their expiry, code   *)
(* exchanges, and cleanup_expired_codes called at any moment, its count     *)
(* kept.                                                                    *)

\* db_manager.cleanup_expired_codes()
Cleanup ==
    /\ swept.runs < MaxSweeps
    /\ \E r \in {cleanup_expired_codes(auth_codes, time)} :
       /\ auth_codes' = r.table
       /\ swept' = [runs |-> swept.runs + 1, at |-> now, count |-> r.count]
    /\ UNCHANGED <<now, advances, minted, clients, refresh_tokens, grants, rotations,
                   reqs, jwts, verified>>

NextSweep ==
    \/ PkceRegister
    \/ \E req \in ConcAuthorizeRequests : Authorize(req)
    \/ \E req \in ScopeCodeGrantRequests : Token(req)
    \/ Cleanup
    \/ \E d \in {1, AuthCodeTTL} : ClockStep(d)

SpecSweep == Init /\ [][NextSweep]_vars

-----------------------------------------------------------------------------
(* The cleanup running while codes are issued and exchanged: the cleanup is *)
(* a frame of its own (slot 0) that reads the clock, runs its query and     *)
(* then deletes the rows of the query's result and commits; the exchanges   *)
(* in flight take their store operations in between.                        *)

SweepSlot == 0

\* cleanup_expired_codes: `current_time = time.time()`
SweepReadClock ==
    /\ SweepSlot \notin DOMAIN reqs
    /\ swept.runs < MaxSweeps
    /\ reqs' = [r \in DOMAIN reqs \cup {SweepSlot} |->
                  IF r = SweepSlot
                  THEN [pc |-> "query", current_time |-> time, expired_codes |-> {}]
                  ELSE reqs[r]]
    /\ UNCHANGED <<now, advances, minted, clients, auth_codes, refresh_tokens, grants,
                   rotations, jwts, verified, swept>>

\* ... the query for the rows with expires_at < current_time
SweepQuery ==
    /\ SweepSlot \in DOMAIN reqs
    /\ reqs[SweepSlot].pc = "query"
    /\ reqs' = [reqs EXCEPT ![SweepSlot].pc = "delete",
                            ![SweepSlot].expired_codes =
                                ExpiredCodes(auth_codes, reqs[SweepSlot].current_time)]
    /\ UNCHANGED <<now, advances, minted, clients, auth_codes, refresh_tokens, grants,
                   rotations, jwts, verified, swept>>

\* ... the deletes of the rows found and the commit; a row that is gone by
\* now is deleted by nobody, and the count is that of the rows found
SweepCommit ==
    /\ SweepSlot \in DOMAIN reqs
    /\ reqs[SweepSlot].pc = "delete"
    /\ auth_codes' = Remove(auth_codes, reqs[SweepSlot].expired_codes)
    /\ swept' = [runs |-> swept.runs + 1, at |-> reqs[SweepSlot].current_time,
                 count |-> Cardinality(reqs[SweepSlot].expired_codes)]
    /\ reqs' = Finish(SweepSlot)
    /\ UNCHANGED <<now, advances, minted, clients, refresh_tokens, grants, rotations,
                   jwts, verified>>

\* an exchange arrives while the cleanup may be running
SweepArrive(req) ==
    /\ Cardinality(DOMAIN reqs \ {SweepSlot}) < MaxSweepRequests
    /\ Arrive(req)

NextSweepConc ==
    \/ PkceRegister
    \/ \E req \in ConcAuthorizeRequests : PkceAuthorize(req)
    \/ \E req \in ScopeCodeGrantRequests : SweepArrive(req)
    \/ \E s \in 1..MaxRequests : GetClient(s)
    \/ \E s \in 1..MaxRequests : GetAuthCode(s)
    \/ \E s \in 1..MaxRequests : DeleteExpiredCode(s)
    \/ \E s \in 1..MaxRequests : StoreRefreshToken(s)
    \/ \E s \in 1..MaxRequests : CleanUpAuthCode(s)
    \/ SweepReadClock
    \/ SweepQuery
    \/ SweepCommit
    \/ \E d \in {AuthCodeTTL, AuthCodeTTL + 1} : AdvanceClock(d)

SpecSweepConc == Init /\ [][NextSweepConc]_vars

-----------------------------------------------------------------------------
(* The server handling one request at a time, for clients registered with   *)
(* the defaults: /authorize with and without scope, state and PKCE          *)
(* challenge, /token requests of every kind (good and bad credentials,      *)
(* every grant type, codes and refresh tokens present, absent and foreign), *)
(* the cleanup, and the clock moving to a code's expiry and just past it.   *)

\* scope, state, code_challenge and code_challenge_method as sent to
\* /authorize: none of them; all of them (the challenge is
\* base64url(sha256("abc123")) stripped); an empty state; a state with
\* characters that a query string escapes
FrameAuthorizeInputs ==
    {<<None, None, None, None>>,
     <<Some("projects:read"), Some("xyz"),
       Some("bKE9UspwyIPg8LsQHkJaiehiTeUdstI5JZOvaoQRgJA"), Some("S256")>>,
     <<None, Some(""), None, None>>,
     <<None, Some("a b&c=d"), None, None>>}

FrameAuthorizeRequests ==
    {[response_type |-> "code",
      client_id |-> c,
      redirect_uri |-> "http://localhost:3334/callback",
      scope |-> p[1],
      state |-> p[2],
      code_challenge |-> p[3],
      code_challenge_method |-> p[4]] : c \in DOMAIN clients, p \in FrameAuthorizeInputs}

\* exchanges by a registered client: no code, a code handed out or not, with
\* no verifier, the right one and a wrong one
FrameCodeGrantRequests ==
    {TokenRequest("authorization_code", cred, code,
                  Some("http://localhost:3334/callback"), v, None, None) :
        cred \in GoodCredentials,
        code \in {None} \cup {Some(x) : x \in CodeInputs},
        v \in {None, Some("abc123"), Some("xyz789")}}

FrameTokenRequests ==
    FrameCodeGrantRequests \cup RefreshGrantRequests \cup OtherGrantRequests
        \cup BadCredentialRequests

FrameRegister == Register(DefaultRegisterBody)

NextFrame ==
    \/ FrameRegister
    \/ \E req \in FrameAuthorizeRequests : PkceAuthorize(req)
    \/ \E req \in FrameTokenRequests : Token(req)
    \/ Cleanup
    \/ \E d \in {AuthCodeTTL, AuthCodeTTL + 1} : AdvanceClock(d)

SpecFrame == Init /\ [][NextFrame]_vars

-----------------------------------------------------------------------------
(* One client and /authorize alone, with the clock moving by half a second  *)
(* and by the lifetime of a code.                                           *)

NextAuthorize ==
    \/ PkceRegister
    \/ \E req \in FrameAuthorizeRequests : Authorize(req)
    \/ \E d \in {1, AuthCodeTTL} : ClockStep(d)

SpecAuthorize == Init /\ [][NextAuthorize]_vars

-----------------------------------------------------------------------------
(* Code exchanges taking their store operations one at a time, where a      *)
(* request may stop between two of them: its worker is killed, or the store *)
(* operation it makes next raises and ends the request.  Each store         *)
(* operation has its own session and commit, so what the request committed  *)
(* before it stopped stays.                                                 *)

\* the request of slot s makes no further store operation
Stop(s) ==
    /\ s \in DOMAIN reqs
    /\ reqs[s].pc # "stopped"
    /\ reqs' = Goto(s, "stopped")
    /\ UNCHANGED <<now, advances, minted, clients, auth_codes, refresh_tokens, grants,
                   rotations, jwts, verified, swept>>

NextStop ==
    \/ PkceRegister
    \/ \E req \in ConcAuthorizeRequests : PkceAuthorize(req)
    \/ \E req \in ScopeCodeGrantRequests : Arrive(req)
    \/ \E s \in 1..MaxRequests : GetClient(s)
    \/ \E s \in 1..MaxRequests : GetAuthCode(s)
    \/ \E s \in 1..MaxRequests : DeleteExpiredCode(s)
    \/ \E s \in 1..MaxRequests : StoreRefreshToken(s)
    \/ \E s \in 1..MaxRequests : CleanUpAuthCode(s)
    \/ \E s \in 1..MaxRequests : Stop(s)
    \/ AdvanceClock(AuthCodeTTL + 1)

SpecStop == Init /\ [][NextStop]_vars

-----------------------------------------------------------------------------
(* The vocabulary of the claims *)

\* the error taxonomy: which error a failure response is
ErrorKind(out) ==
    CASE out.status = 400 /\ out.detail \in {"Invalid client", "Invalid client credentials",
                                             "Invalid client_id"} -> "InvalidClient"
      [] out.status = 400 /\ out.detail = "Invalid redirect_uri" -> "InvalidRedirectUri"
      [] out.status = 400 /\ out.detail \in {"Invalid authorization code",
                                             "Authorization code expired",
                                             "Invalid code verifier",
                                             "Invalid refresh token"} -> "InvalidGrant"
      [] out.status = 400 /\ out.detail = "Code verifier required" -> "InvalidRequest"
      [] out.status = 400 /\ out.detail = "Unsupported grant type" -> "UnsupportedGrantType"
      [] OTHER -> "none"

\* what the caller sees of a failure
ErrorShape(out) == <<out.status, out.detail>>

\* the response the server would give to a /token request in the current state
TokenOutcome(req) == token_endpoint(clients, auth_codes, refresh_tokens, minted.rt, time, req)

\* the response the server would give to an /authorize request in the current state
AuthorizeOutcome(req) == authorize(clients, auth_codes, refresh_tokens, minted.code, time, req)

RedeemedCodes == {g.code : g \in grants}

-----------------------------------------------------------------------------
\* C1: under sequential requests a code is exchanged successfully at most
\* once: a code that was exchanged is absent from the store, and every
\* further exchange of it by an authenticated client fails with InvalidGrant,
\* with the very response given for a code that was never issued.
C1_SingleUse ==
    /\ \A g1 \in grants : \A g2 \in grants : g1.code = g2.code => g1 = g2
    /\ \A c \in RedeemedCodes : c \notin DOMAIN auth_codes
    /\ \A req \in CodeGrantRequests :
          (req.code # None /\ req.code[1] \in RedeemedCodes) =>
             \A out \in {TokenOutcome(req)} :
                /\ out.status = 400
                /\ ErrorKind(out) = "InvalidGrant"
                /\ out.body = None
                /\ ErrorShape(out)
                      = ErrorShape(TokenOutcome([req EXCEPT !.code = Some("bogus")]))

\* a code has been exchanged, and a second exchange of it is refused
C1_Witness ==
    \E req \in CodeGrantRequests :
        /\ req.code # None
        /\ req.code[1] \in RedeemedCodes
        /\ TokenOutcome(req).detail = "Invalid authorization code"

\* the refresh tokens that were presented in a successful refresh_token grant
RotatedTokens == {r.old : r \in rotations}

-----------------------------------------------------------------------------
\* C2: refresh rotation.  A successful refresh_token grant presenting R1
\* removes R1 from the store and stores a new token R2 # R1 with R1's
\* client_id and scope; every later refresh_token grant presenting R1 fails
\* with InvalidGrant, and R2 is redeemable by its client for as long as it has
\* not itself been redeemed.
C2_RefreshRotation ==
    /\ \A req \in RefreshGrantRequests : \A out \in {TokenOutcome(req)} :
          out.status = 200 =>
             \A R1 \in {req.refresh_token[1]} : \A R2 \in {out.body[1].refresh_token[1]} :
                /\ R1 \in DOMAIN refresh_tokens
                /\ R1 \notin DOMAIN out.refresh_tokens
                /\ R2 # R1
                /\ R2 \notin DOMAIN refresh_tokens
                /\ DOMAIN out.refresh_tokens = (DOMAIN refresh_tokens \ {R1}) \cup {R2}
                /\ out.refresh_tokens[R2].client_id = refresh_tokens[R1].client_id
                /\ out.refresh_tokens[R2].scope = refresh_tokens[R1].scope
    /\ \A req \in RefreshGrantRequests :
          (req.refresh_token # None /\ req.refresh_token[1] \in RotatedTokens) =>
             \A out \in {TokenOutcome(req)} :
                /\ out.status = 400
                /\ ErrorKind(out) = "InvalidGrant"
    /\ \A r \in rotations :
          \/ r.new \in RotatedTokens
          \/ /\ r.new \in DOMAIN refresh_tokens
             /\ \E req \in RefreshGrantRequests :
                   /\ req.refresh_token = Some(r.new)
                   /\ req.client_id = refresh_tokens[r.new].client_id
                   /\ TokenOutcome(req).status = 200

\* R1 has been rotated into R2, R1 is now refused and R2 is in the store
C2_Witness ==
    \E r \in rotations :
        /\ r.new \in DOMAIN refresh_tokens
        /\ r.old \notin DOMAIN refresh_tokens
        /\ \E req \in RefreshGrantRequests :
              /\ req.refresh_token = Some(r.old)
              /\ TokenOutcome(req).detail = "Invalid refresh token"

-----------------------------------------------------------------------------
\* C5: an authorization code is exchanged only by the client it was issued
\* to, presenting the redirect_uri it was issued for; no code issued to a
\* client A is exchanged by another registered client B.
C5_CodeBoundToContext ==
    \A g \in grants :
        /\ g.client_id = g.code_client_id
        /\ g.redirect_uri = Some(g.code_redirect_uri)

-----------------------------------------------------------------------------
\* C6: the secret issued at registration authenticates its client, and a
\* wrong secret for a registered client is refused with the very error
\* (status and detail) given to an unregistered client_id.
C6_UniformAuthFailure ==
    /\ \A cred \in GoodCredentials :
          ValidateClient(clients, cred[1], cred[2]) = None
    /\ \A r1 \in BadCredentialRequests : \A r2 \in BadCredentialRequests :
          /\ TokenOutcome(r1).status = 400
          /\ ErrorShape(TokenOutcome(r1)) = ErrorShape(TokenOutcome(r2))

-----------------------------------------------------------------------------
\* the redirect URIs a client registered, as the registration stored them
RegisteredUris(client_id) == Range(json_loads(clients[client_id].redirect_uris))

-----------------------------------------------------------------------------
\* C3: an authorization_code exchange made when now > expires_at fails with
\* InvalidGrant ("Authorization code expired") whatever code_verifier it
\* carries, so before any PKCE check; it issues no access credential and no
\* refresh token and deletes the code, after which every exchange of that
\* code fails.
C3_ExpiredCodeRejected ==
    \A req \in PkceTokenRequests :
        (req.code[1] \in DOMAIN auth_codes /\ now > auth_codes[req.code[1]].expires_at) =>
           \A out \in {TokenOutcome(req)} :
              /\ out.status = 400
              /\ out.detail = "Authorization code expired"
              /\ ErrorKind(out) = "InvalidGrant"
              /\ out.body = None
              /\ out.refresh_tokens = refresh_tokens
              /\ out.minted = minted.rt
              /\ DOMAIN out.auth_codes = DOMAIN auth_codes \ {req.code[1]}
              /\ \A later \in PkceTokenRequests :
                    later.code = req.code =>
                       token_endpoint(clients, out.auth_codes, out.refresh_tokens,
                                      out.minted, time, later).status = 400

\* an unused code that carries an S256 challenge is past its expiry, and an
\* exchange of it without any verifier is answered "expired"
C3_Witness ==
    \E req \in PkceTokenRequests :
        /\ req.code[1] \in DOMAIN auth_codes
        /\ now > auth_codes[req.code[1]].expires_at
        /\ Truthy(auth_codes[req.code[1]].code_challenge)
        /\ auth_codes[req.code[1]].code_challenge_method = Some("S256")
        /\ req.code_verifier = None
        /\ TokenOutcome(req).detail = "Authorization code expired"

-----------------------------------------------------------------------------
\* base64url(sha256(v)) without padding, as RFC 7636 defines the S256
\* challenge of the verifier v
S256Challenge(v) ==
    CASE v = "abc123" -> "bKE9UspwyIPg8LsQHkJaiehiTeUdstI5JZOvaoQRgJA"
      [] v = "xyz789" -> "WkZAwX6OSevMciNMzpZE3Kz7wsU-Am9ZKByjOSi-1S0"
      [] v = "bKE9UspwyIPg8LsQHkJaiehiTeUdstI5JZOvaoQRgJA" ->
             "PseQwhFJYEkbSN6vet9Apb3cQwzAHBdW2FUpccwrUSg"

\* C4: for an unexpired code stored with a (non-empty) code_challenge and
\* method S256, the exchange fails with InvalidRequest when no code_verifier
\* is presented, succeeds when base64url(sha256(code_verifier)) without
\* padding equals the stored challenge, and fails with InvalidGrant for every
\* other verifier.
C4_PkceS256 ==
    \A req \in PkceTokenRequests :
        (/\ req.code[1] \in DOMAIN auth_codes
         /\ ~(now > auth_codes[req.code[1]].expires_at)
         /\ Truthy(auth_codes[req.code[1]].code_challenge)
         /\ auth_codes[req.code[1]].code_challenge_method = Some("S256")) =>
           \A out \in {TokenOutcome(req)} :
              IF req.code_verifier = None
              THEN out.status = 400 /\ ErrorKind(out) = "InvalidRequest"
              ELSE IF S256Challenge(req.code_verifier[1])
                         = auth_codes[req.code[1]].code_challenge[1]
              THEN out.status = 200 /\ out.body # None
              ELSE /\ out.status = 400
                   /\ out.detail = "Invalid code verifier"
                   /\ ErrorKind(out) = "InvalidGrant"

\* a code stored with the S256 challenge of "abc123" was exchanged with the
\* verifier "abc123"
C4_Witness ==
    \E g \in grants :
        /\ g.code_challenge = Some("bKE9UspwyIPg8LsQHkJaiehiTeUdstI5JZOvaoQRgJA")
        /\ g.code_challenge_method = Some("S256")
        /\ g.code_verifier = Some("abc123")

-----------------------------------------------------------------------------
\* C8: when /token authorization_code requests for one code interleave at the
\* granularity of store operations, at most one returns success: no code has
\* two token pairs issued from it.
C8_AtMostOneRedemption ==
    \A g1 \in grants : \A g2 \in grants :
        g1.code = g2.code => g1.refresh_token = g2.refresh_token

-----------------------------------------------------------------------------
\* C9: when refresh_token grants presenting one token interleave at the
\* granularity of store operations, at most one succeeds: no presented
\* refresh token has more than one live successor.
C9_AtMostOneSuccessor ==
    \A r1 \in rotations : \A r2 \in rotations :
        (/\ r1.old = r2.old
         /\ r1.new \in DOMAIN refresh_tokens
         /\ r2.new \in DOMAIN refresh_tokens) => r1.new = r2.new

-----------------------------------------------------------------------------
\* the TTL of an issued token, in ticks
TTL(j) == GetOr(j.expires_minutes, JWT_EXPIRES_MINUTES) * SecondsPerMinute * TicksPerSecond

\* the last whole second at or before the instant x, in ticks
FloorToSecond(x) == (x \div TicksPerSecond) * TicksPerSecond

\* the issued token a verified token is or was made from
IssuedFrom(token) ==
    {j \in jwts : token \in {j.token, BadSignature(j.token), PushedExpiry(j.token),
                             WrongAudience(j.token)}}

\* C10 as stated: a credential issued at t with TTL d verifies successfully at
\* every time in [t, t+d) and fails with the Expired error at every time after
\* t+d; a token with a bad signature, or one for a wrong audience that has
\* not reached t+d, fails with the Invalid error instead.
C10_ValidUntilTtl ==
    verified # None =>
       \A v \in {verified[1]} : \A j \in IssuedFrom(v.token) :
          /\ (v.token = j.token /\ v.at < j.issued_at + TTL(j)) =>
                 v.result.status = 200 /\ v.result.payload = j.token.payload
          /\ (v.token = j.token /\ v.at > j.issued_at + TTL(j)) =>
                 v.result.status = 401 /\ v.result.detail = "Token expired"
          /\ (v.token = BadSignature(j.token)) =>
                 v.result.status = 401 /\ v.result.detail = "Invalid token"
          /\ (v.token = WrongAudience(j.token) /\ v.at < j.issued_at + TTL(j)) =>
                 v.result.status = 401 /\ v.result.detail = "Invalid token"

\* C10, amended: exp is the whole second at or before t+d; the credential
\* verifies successfully (returning its claims) at every time in
\* [t, floor(t+d)) and fails with the Expired error at every time from
\* floor(t+d) on, so at every time after t+d, with no grace period; a token
\* with a bad signature fails with the Invalid error at every time, and a
\* token for another audience fails with the Invalid error until its expiry
\* and with the Expired error from then on.
C10_ValidUntilExpSecond ==
    verified # None =>
       \A v \in {verified[1]} :
          /\ \A j \in IssuedFrom(v.token) :
                /\ (v.token = j.token /\ v.at < FloorToSecond(j.issued_at + TTL(j))) =>
                       /\ v.result.status = 200
                       /\ v.result.payload # None
                       /\ v.result.payload[1].sub = j.subject
                       /\ v.result.payload[1].aud = SERVER_URL
                       /\ v.result.payload[1].exp * TicksPerSecond
                              = FloorToSecond(j.issued_at + TTL(j))
                /\ (v.token = j.token /\ v.at >= FloorToSecond(j.issued_at + TTL(j))) =>
                       v.result.status = 401 /\ v.result.detail = "Token expired"
                /\ (v.token \in {BadSignature(j.token), PushedExpiry(j.token)}) =>
                       v.result.status = 401 /\ v.result.detail = "Invalid token"
                /\ (v.token = WrongAudience(j.token)) =>
                       /\ v.result.status = 401
                       /\ v.result.detail =
                             IF v.at < FloorToSecond(j.issued_at + TTL(j))
                             THEN "Invalid token" ELSE "Token expired"
          /\ v.token = Malformed =>
                v.result.status = 401 /\ v.result.detail = "Invalid token"

\* a token issued half a second past a whole second with a TTL of one minute
\* was verified after the second of its exp but before t+d, and found expired
C10_Witness ==
    /\ verified # None
    /\ \E j \in jwts :
          /\ verified[1].token = j.token
          /\ j.expires_minutes = Some(1)
          /\ j.issued_at % TicksPerSecond # 0
          /\ verified[1].at >= FloorToSecond(j.issued_at + TTL(j))
          /\ verified[1].at < j.issued_at + TTL(j)
          /\ verified[1].result.detail = "Token expired"

-----------------------------------------------------------------------------
\* the claims of the access credential in a /token success, as a protected
\* resource decodes them
DecodedClaims(out) == verify_access_token(out.body[1].access_token, now).payload[1]

\* the permission strings of a scope
Permissions(scope) == Split(scope)

\* C11 as stated: after a successful authorization_code exchange of a code
\* stored with scope s, the access credential has the authenticated client as
\* subject and scope equal to s, the response's scope is s, and the refresh
\* token the exchange stored is bound to that client and to s.
C11_GrantCarriesScope ==
    \A req \in ScopeCodeGrantRequests : \A out \in {TokenOutcome(req)} :
        out.status = 200 =>
           \A s \in {auth_codes[req.code[1]].scope} :
              /\ DecodedClaims(out).sub = req.client_id
              /\ DecodedClaims(out).scope = s
              /\ out.body[1].scope = s
              /\ out.refresh_tokens[out.body[1].refresh_token[1]].client_id = req.client_id
              /\ out.refresh_tokens[out.body[1].refresh_token[1]].scope = s

\* C11, amended: ... the access credential has the authenticated client as
\* subject and the permission strings of s, in order and separated by single
\* spaces, as scope (so s itself when s is written that way); the response's
\* scope is s, and the refresh token the exchange stored is bound to that
\* client and to s.
C11_GrantCarriesPermissions ==
    \A req \in ScopeCodeGrantRequests : \A out \in {TokenOutcome(req)} :
        out.status = 200 =>
           \A s \in {auth_codes[req.code[1]].scope} :
              /\ DecodedClaims(out).sub = req.client_id
              /\ Permissions(DecodedClaims(out).scope) = Permissions(s)
              /\ s \in {"video:transcribe", "projects:read", "admin"} =>
                    DecodedClaims(out).scope = s
              /\ out.body[1].scope = s
              /\ out.refresh_tokens[out.body[1].refresh_token[1]].client_id = req.client_id
              /\ out.refresh_tokens[out.body[1].refresh_token[1]].scope = s

\* a code issued to one client for two scopes was exchanged by another
\* client, and the refresh token of that exchange is in the store
C11_Witness ==
    \E g \in grants :
        /\ g.client_id # g.code_client_id
        /\ g.refresh_token \in DOMAIN refresh_tokens
        /\ refresh_tokens[g.refresh_token].scope = "projects:read  videos:read"
        /\ refresh_tokens[g.refresh_token].client_id = g.client_id

-----------------------------------------------------------------------------
\* C12: a refresh_token grant presenting a stored token whose client_id is
\* not the authenticated client fails with InvalidGrant, issues nothing and
\* leaves the token in the store, where the client it was issued to can still
\* redeem it.
C12_ForeignRefreshTokenRefused ==
    \A req \in ScopeRefreshGrantRequests :
        (/\ req.refresh_token[1] \in DOMAIN refresh_tokens
         /\ refresh_tokens[req.refresh_token[1]].client_id # req.client_id) =>
           \A out \in {TokenOutcome(req)} :
              /\ out.status = 400
              /\ ErrorKind(out) = "InvalidGrant"
              /\ out.body = None
              /\ out.refresh_tokens = refresh_tokens
              /\ out.auth_codes = auth_codes
              /\ out.minted = minted.rt
              /\ \A owner \in ScopeRefreshGrantRequests :
                    (/\ owner.refresh_token = req.refresh_token
                     /\ owner.client_id = refresh_tokens[req.refresh_token[1]].client_id) =>
                       token_endpoint(clients, out.auth_codes, out.refresh_tokens,
                                      out.minted, time, owner).status = 200

\* two clients are registered and a refresh token issued to one of them is
\* in the store, so that the other can present it
C12_Witness ==
    /\ Cardinality(DOMAIN clients) >= 2
    /\ \E g \in grants :
          /\ g.refresh_token \in DOMAIN refresh_tokens
          /\ \E req \in ScopeRefreshGrantRequests :
                /\ req.refresh_token = Some(g.refresh_token)
                /\ req.client_id # refresh_tokens[g.refresh_token].client_id
                /\ TokenOutcome(req).detail = "Invalid refresh token"

-----------------------------------------------------------------------------
\* C13: an /authorize request whose response_type is not "code" fails and
\* stores no authorization code, even for a valid client_id and redirect_uri.
C13_OnlyResponseTypeCode ==
    \A req \in ScopeAuthorizeRequests :
        req.response_type # "code" =>
           \A out \in {AuthorizeOutcome(req)} :
              /\ out.status = 400
              /\ out.body = None
              /\ out.auth_codes = auth_codes

-----------------------------------------------------------------------------
\* C14: PKCE methods other than S256 are not supported: every successful
\* exchange of a code stored with a code_challenge presented a code_verifier
\* whose S256 challenge is the stored one.
C14_ChallengeAlwaysVerified ==
    \A g \in grants :
        Truthy(g.code_challenge) =>
           /\ g.code_verifier # None
           /\ S256Challenge(g.code_verifier[1]) = g.code_challenge[1]

-----------------------------------------------------------------------------
\* the scope set a client registered
RegisteredScope(client_id) == Range(Permissions(clients[client_id].scope))

\* C15: the scope of every authorization code, refresh token and access
\* credential issued for a client is a subset of the scope registered for
\* that client.
C15_ScopeWithinRegistration ==
    /\ \A c \in DOMAIN auth_codes :
          Range(Permissions(auth_codes[c].scope)) \subseteq
             RegisteredScope(auth_codes[c].client_id)
    /\ \A r \in DOMAIN refresh_tokens :
          Range(Permissions(refresh_tokens[r].scope)) \subseteq
             RegisteredScope(refresh_tokens[r].client_id)
    /\ \A req \in ScopeTokenRequests : \A out \in {TokenOutcome(req)} :
          out.status = 200 =>
             Range(Permissions(DecodedClaims(out).scope)) \subseteq
                RegisteredScope(req.client_id)

-----------------------------------------------------------------------------
\* the scope a client_credentials request asks for
RequestedScope(req) == IF req.scope = None THEN "video:transcribe" ELSE req.scope[1]

\* C19 as stated: a client_credentials grant by an authenticated client
\* returns an access credential whose subject is the client and whose scope
\* is the requested scope (the first configured default scope when none is
\* requested), returns no refresh_token, and leaves clients, codes and
\* refresh tokens unchanged.
C19_ClientCredentialsScope ==
    \A req \in ClientCredentialsRequests : \A out \in {TokenOutcome(req)} :
        /\ out.status = 200
        /\ DecodedClaims(out).sub = req.client_id
        /\ DecodedClaims(out).scope = RequestedScope(req)
        /\ out.body[1].refresh_token = None
        /\ out.auth_codes = auth_codes
        /\ out.refresh_tokens = refresh_tokens
        /\ out.minted = minted.rt

\* C19, amended: ... whose scope is the permission strings of the requested
\* scope, in order and separated by single spaces (the requested scope
\* itself when it is written that way; the first configured default scope
\* when none is requested); the response's scope is the requested scope as
\* sent; no refresh_token is returned and clients, codes and refresh tokens
\* are unchanged.
C19_ClientCredentialsPermissions ==
    \A req \in ClientCredentialsRequests : \A out \in {TokenOutcome(req)} :
        /\ out.status = 200
        /\ DecodedClaims(out).sub = req.client_id
        /\ Permissions(DecodedClaims(out).scope) = Permissions(RequestedScope(req))
        /\ RequestedScope(req) \in {"video:transcribe", "projects:read", "admin"} =>
              DecodedClaims(out).scope = RequestedScope(req)
        /\ out.body[1].scope = RequestedScope(req)
        /\ out.body[1].refresh_token = None
        /\ out.auth_codes = auth_codes
        /\ out.refresh_tokens = refresh_tokens
        /\ out.minted = minted.rt

\* with two clients and a refresh token in the store, a request asks for two
\* scopes and another for none, and both are granted
C19_Witness ==
    /\ Cardinality(DOMAIN clients) >= 2
    /\ refresh_tokens # <<>>
    /\ \E r1 \in ClientCredentialsRequests : \E r2 \in ClientCredentialsRequests :
          /\ r1.scope = Some("projects:read  videos:read")
          /\ r2.scope = None
          /\ TokenOutcome(r1).status = 200
          /\ DecodedClaims(TokenOutcome(r2)).scope = "video:transcribe"

-----------------------------------------------------------------------------
\* the codes of a table that are unexpired at the instant t
Unexpired(table, t) == {c \in DOMAIN table : table[c].expires_at >= t}

\* C16: a sweep run at time now deletes exactly the authorization codes with
\* expires_at < now, returns the number it deleted, and leaves every code
\* with expires_at >= now, every client and every refresh token unchanged.
C16_SweepDeletesExactlyExpired ==
    [][swept'.runs # swept.runs =>
          /\ DOMAIN auth_codes' = Unexpired(auth_codes, now)
          /\ \A c \in Unexpired(auth_codes, now) : auth_codes'[c] = auth_codes[c]
          /\ swept'.count = Cardinality(DOMAIN auth_codes \ Unexpired(auth_codes, now))
          /\ clients' = clients
          /\ refresh_tokens' = refresh_tokens]_vars

\* a sweep deleted one code and kept another that expires at the very
\* instant of the sweep
C16_Witness ==
    /\ swept.runs > 0
    /\ swept.count = 1
    /\ swept.at = now
    /\ \E c \in DOMAIN auth_codes : auth_codes[c].expires_at = now

-----------------------------------------------------------------------------
\* C17: a sweep run twice with no operation and no clock change in between
\* leaves the store as the first run left it, and the second run returns 0.
C17_SweepIdempotent ==
    \A first \in {cleanup_expired_codes(auth_codes, time)} :
    \A second \in {cleanup_expired_codes(first.table, time)} :
        /\ second.table = first.table
        /\ second.count = 0

\* a sweep has just deleted two codes, neither of them ever exchanged
C17_Witness ==
    /\ swept.runs > 0
    /\ swept.count = 2
    /\ swept.at = now
    /\ auth_codes = <<>>
    /\ minted.code = 2
    /\ grants = {}

-----------------------------------------------------------------------------
\* the exchanges in flight
Exchanges == DOMAIN reqs \ {SweepSlot}

\* the exchanges past their expiry check, about to issue tokens
Redeeming == {s \in Exchanges : reqs[s].pc \in {"create_refresh_token", "delete_auth_code"}}

\* the step in which the cleanup deletes and returns
SweepReturns == SweepSlot \in DOMAIN reqs /\ SweepSlot \notin DOMAIN reqs'

\* the step in which the exchange of slot s returns or raises from pc
ExchangeLeaves(s, pc) == s \in Exchanges /\ reqs[s].pc = pc /\ s \notin DOMAIN reqs'

\* C18: the cleanup interleaved with /authorize and with code exchanges: the
\* cleanup removes no code that is unexpired when it runs; no exchange that
\* began after its code's expiry redeems it; an exchange that finds its code
\* expired removes it, whether or not the cleanup removed it first; and the
\* cleanup and an exchange each complete when the other has removed the row
\* (the cleanup returning the number of rows its query found, the exchange
\* its tokens or its error).
C18_SweepSafeWithExchange ==
    [][/\ SweepReturns =>
             /\ \A c \in DOMAIN auth_codes \ DOMAIN auth_codes' :
                   auth_codes[c].expires_at < reqs[SweepSlot].current_time
                   /\ reqs[SweepSlot].current_time <= now
             /\ \A c \in DOMAIN auth_codes' : auth_codes'[c] = auth_codes[c]
             /\ swept'.count = Cardinality(reqs[SweepSlot].expired_codes)
       /\ \A s \in Redeeming : reqs[s].began <= reqs[s].auth_info[1].expires_at
       /\ \A s \in Exchanges :
             /\ ExchangeLeaves(s, "delete_expired_code") =>
                   /\ reqs[s].req.code[1] \notin DOMAIN auth_codes'
                   /\ grants' = grants
             /\ ExchangeLeaves(s, "delete_auth_code") =>
                   /\ reqs[s].req.code[1] \notin DOMAIN auth_codes'
                   /\ grants' = grants \cup {GrantOf(reqs[s])}
             /\ (reqs[s].pc = "get_auth_code" /\ reqs[s].req.code[1] \in DOMAIN auth_codes
                    /\ reqs[s].began > auth_codes[reqs[s].req.code[1]].expires_at
                    /\ reqs'[s] # reqs[s]) =>
                   reqs'[s].pc = "delete_expired_code"
       /\ (SweepSlot \in DOMAIN reqs /\ reqs[SweepSlot].pc = "delete") => ENABLED SweepCommit
       /\ \A s \in Exchanges :
             /\ reqs[s].pc = "delete_expired_code" => ENABLED DeleteExpiredCode(s)
             /\ reqs[s].pc = "delete_auth_code" => ENABLED CleanUpAuthCode(s)
      ]_vars

\* an exchange passed its expiry check, the code then expired and the
\* cleanup removed it, and the exchange went on to return its tokens
C18_Witness ==
    /\ swept.runs > 0
    /\ swept.count = 1
    /\ \E g \in grants :
          /\ g.refresh_token \in DOMAIN refresh_tokens
          /\ swept.at > refresh_tokens[g.refresh_token].created_at + AuthCodeTTL - 1
          /\ swept.at <= now

-----------------------------------------------------------------------------
\* the response to a request for a protected resource with a bearer token
\* that fails verification at time t
Unauthorized(token, t) == auth_exception_handler(verify_access_token(token, t))

\* the protected-resource discovery location, as the 401 response names it
DiscoveryLocation == <<"Bearer resource=", SERVER_URL, "/.well-known/oauth-protected-resource">>

\* the issued credentials that fail verification now because they expired
ExpiredNow == {j \in jwts : verify_access_token(j.token, now).detail = "Token expired"}

\* C20: the 401 response for an expired access credential is the same in
\* status, body and headers as the 401 response for a malformed credential
\* and for a wrongly signed one, and each carries the protected-resource
\* discovery location.
C20_FailuresIndistinguishable ==
    \A j \in ExpiredNow : \A bad \in {Malformed, BadSignature(j.token)} :
        /\ verify_access_token(bad, now).status = 401
        /\ Unauthorized(j.token, now) = Unauthorized(bad, now)
        /\ Unauthorized(j.token, now).headers.WWW_Authenticate = DiscoveryLocation
        /\ Unauthorized(bad, now).headers.WWW_Authenticate = DiscoveryLocation

-----------------------------------------------------------------------------
\* the grant types /token dispatches on
SupportedGrantTypes == {"authorization_code", "client_credentials", "refresh_token"}

\* C21: client authentication precedes grant dispatch.  A /token request with
\* an unknown client_id or a wrong client_secret fails with InvalidClient
\* whatever its grant_type (an unsupported one included) and the code and
\* refresh token it carries, and leaves codes and refresh tokens as they
\* were; UnsupportedGrantType is given only to an authenticated client whose
\* grant_type is none of the three supported ones.
C21_AuthenticationFirst ==
    /\ \A req \in BadCredentialRequests : \A out \in {TokenOutcome(req)} :
          /\ out.status = 400
          /\ ErrorKind(out) = "InvalidClient"
          /\ out.body = None
          /\ out.auth_codes = auth_codes
          /\ out.refresh_tokens = refresh_tokens
          /\ out.minted = minted.rt
    /\ \A req \in FrameTokenRequests :
          ErrorKind(TokenOutcome(req)) = "UnsupportedGrantType" =>
             /\ <<req.client_id, req.client_secret>> \in GoodCredentials
             /\ req.grant_type \notin SupportedGrantTypes

\* a code is in the store, unexpired; a request presenting it with a
\* registered client_id and another client's secret is refused as
\* InvalidClient, as is one of an unsupported grant type, while the code's
\* own client is told that grant type is unsupported
C21_Witness ==
    \E req \in BadCredentialRequests :
        /\ req.grant_type = "authorization_code"
        /\ req.code[1] \in DOMAIN auth_codes
        /\ ~CodeExpired(auth_codes[req.code[1]], now)
        /\ req.client_id \in DOMAIN clients
        /\ \E c \in DOMAIN clients : c # req.client_id /\ clients[c].client_secret = req.client_secret
        /\ TokenOutcome(req).detail = "Invalid client credentials"
        /\ ErrorKind(TokenOutcome([req EXCEPT !.grant_type = "password"])) = "InvalidClient"
        /\ \E ok \in OtherGrantRequests :
              /\ ok.grant_type = "password"
              /\ ErrorKind(TokenOutcome(ok)) = "UnsupportedGrantType"

-----------------------------------------------------------------------------
\* what the client reads off a redirect: urllib.parse.unquote_plus on the
\* escapes quote_plus makes
RECURSIVE unquote_plus(_)
unquote_plus(s) ==
    IF s = "" THEN ""
    ELSE IF Char(s, 1) = "+" THEN " " \o unquote_plus(SubSeq(s, 2, Len(s)))
    ELSE IF Len(s) >= 3 /\ SubSeq(s, 1, 3) = "%26" THEN "&" \o unquote_plus(SubSeq(s, 4, Len(s)))
    ELSE IF Len(s) >= 3 /\ SubSeq(s, 1, 3) = "%3D" THEN "=" \o unquote_plus(SubSeq(s, 4, Len(s)))
    ELSE Char(s, 1) \o unquote_plus(SubSeq(s, 2, Len(s)))

\* the position of the first c in s from i on, or Len(s) + 1
RECURSIVE Find(_, _, _)
Find(s, c, i) == IF i > Len(s) \/ Char(s, i) = c THEN i ELSE Find(s, c, i + 1)

\* s cut at every c
RECURSIVE SplitOn(_, _)
SplitOn(s, c) ==
    IF Find(s, c, 1) > Len(s) THEN <<s>>
    ELSE <<SubSeq(s, 1, Find(s, c, 1) - 1)>> \o SplitOn(SubSeq(s, Find(s, c, 1) + 1, Len(s)), c)

\* the query parameters of a URL, decoded, as <<name, value>> pairs in order
parse_qsl(url) ==
    LET query == SubSeq(url, Find(url, "?", 1) + 1, Len(url))
        fields == IF query = "" THEN <<>> ELSE SplitOn(query, "&")
    IN [i \in DOMAIN fields |->
          <<unquote_plus(SubSeq(fields[i], 1, Find(fields[i], "=", 1) - 1)),
            unquote_plus(SubSeq(fields[i], Find(fields[i], "=", 1) + 1, Len(fields[i])))>>]

\* C22: the redirect of a successful /authorize request that supplies a state
\* (any string, the empty one included) carries the code and a state
\* parameter equal to the value supplied; when no state is supplied the
\* redirect carries the code alone.
C22_StatePassThrough ==
    \A req \in FrameAuthorizeRequests : \A out \in {AuthorizeOutcome(req)} :
        out.status = 307 =>
           \A params \in {parse_qsl(out.body[1].url)} :
              \A code \in DOMAIN out.auth_codes \ DOMAIN auth_codes :
                 /\ SubSeq(out.body[1].url, 1, Len(req.redirect_uri)) = req.redirect_uri
                 /\ req.state # None => params = <<<<"code", code>>, <<"state", req.state[1]>>>>
                 /\ req.state = None => params = <<<<"code", code>>>>

-----------------------------------------------------------------------------
\* a code that an exchange arriving now would still redeem
Redeemable(code) == code \in DOMAIN auth_codes /\ ~CodeExpired(auth_codes[code], now)

\* C23: no authorization_code exchange is left half-applied.  In every
\* reachable state, those in which a request has stopped between two of its
\* store operations included, no refresh token minted from a code is in the
\* store while that code is still in the store and redeemable.
C23_NoHalfAppliedExchange ==
    /\ \A g \in grants :
          g.refresh_token \in DOMAIN refresh_tokens => ~Redeemable(g.code)
    /\ \A s \in DOMAIN reqs :
          (reqs[s].issued # None /\ reqs[s].issued[1] \in DOMAIN refresh_tokens) =>
             ~Redeemable(reqs[s].req.code[1])

-----------------------------------------------------------------------------
\* C24: a successful /authorize request at time now stores exactly one new
\* authorization code, under a code value that was not in the store, with the
\* request's client_id, redirect_uri, scope (the first configured scope when
\* the request has none), code_challenge and code_challenge_method, and with
\* expires_at = now + the configured lifetime of a code; every other code and
\* every refresh token is left as it was.
C24_AuthorizePersistsCode ==
    \A req \in FrameAuthorizeRequests : \A out \in {AuthorizeOutcome(req)} :
        out.status = 307 =>
           /\ Cardinality(DOMAIN out.auth_codes \ DOMAIN auth_codes) = 1
           /\ \A c \in DOMAIN out.auth_codes \ DOMAIN auth_codes :
                 /\ out.auth_codes[c].code = c
                 /\ out.auth_codes[c].client_id = req.client_id
                 /\ out.auth_codes[c].redirect_uri = req.redirect_uri
                 /\ out.auth_codes[c].scope = RequestedScope(req)
                 /\ out.auth_codes[c].code_challenge = req.code_challenge
                 /\ out.auth_codes[c].code_challenge_method = req.code_challenge_method
                 /\ out.auth_codes[c].expires_at
                       = now + AUTH_CODE_EXPIRES_MINUTES * SecondsPerMinute * TicksPerSecond
           /\ \A c \in DOMAIN auth_codes :
                 c \in DOMAIN out.auth_codes /\ out.auth_codes[c] = auth_codes[c]
           /\ out.refresh_tokens = refresh_tokens

\* a code stored at time 0 is in the store, the clock has moved, and a
\* request with a scope and a PKCE challenge is answered with a redirect and
\* a second code that expires a lifetime from now
C24_Witness ==
    /\ now > 0
    /\ \E c \in DOMAIN auth_codes : auth_codes[c].created_at = 0
    /\ \E req \in FrameAuthorizeRequests :
          /\ req.scope # None
          /\ req.code_challenge # None
          /\ AuthorizeOutcome(req).status = 307
          /\ \E c \in DOMAIN AuthorizeOutcome(req).auth_codes \ DOMAIN auth_codes :
                AuthorizeOutcome(req).auth_codes[c].expires_at > AuthCodeTTL

-----------------------------------------------------------------------------
\* the grant flows a client registered for, as the registration stored them
RegisteredGrantTypes(client_id) == Range(ClientGrantTypes(clients[client_id]))

\* C25: a /token request by an authenticated client succeeds only if its
\* grant_type is one of the client's registered grant_types; a client
\* registered with the defaults (authorization_code, client_credentials) is
\* given no refresh token by the refresh_token grant.
C25_GrantTypesEnforced ==
    \A req \in FrameTokenRequests : \A out \in {TokenOutcome(req)} :
        out.status = 200 => req.grant_type \in RegisteredGrantTypes(req.client_id)

-----------------------------------------------------------------------------
\* the credentials the k-th /register response handed out
IssuedCredentials == {<<token_urlsafe("id", k), token_urlsafe("secret", k)>> : k \in 1..minted.client}

\* C26: client records are immutable under the core flows.  No step
\* (/authorize, /token of any grant and outcome, the cleanup, /register)
\* modifies or deletes a client record; a step that changes the clients is a
\* /register that adds exactly one record, under a client_id no record had,
\* and touches neither codes nor refresh tokens; and the credentials every
\* /register handed out authenticate their client from then on.
C26_ClientsImmutable ==
    [][/\ \A c \in DOMAIN clients : c \in DOMAIN clients' /\ clients'[c] = clients[c]
       /\ clients' # clients =>
             /\ Cardinality(DOMAIN clients' \ DOMAIN clients) = 1
             /\ minted'.client = minted.client + 1
             /\ auth_codes' = auth_codes
             /\ refresh_tokens' = refresh_tokens
       /\ (auth_codes' # auth_codes \/ refresh_tokens' # refresh_tokens \/ swept' # swept) =>
             clients' = clients
       /\ \A cred \in IssuedCredentials' :
             /\ cred[1] \in DOMAIN clients'
             /\ ValidateClient(clients', cred[1], cred[2]) = None
      ]_vars

\* a client registered after the first one had a code issued and exchanged,
\* its refresh token rotated and the cleanup run, and the first client's
\* record is as it was stored
C26_Witness ==
    /\ Cardinality(DOMAIN clients) = 2
    /\ rotations # {}
    /\ swept.runs > 0
    /\ \E c \in DOMAIN clients : \E r \in DOMAIN refresh_tokens :
          /\ clients[c].created_at > refresh_tokens[r].created_at
          /\ refresh_tokens[r].client_id # c
    /\ \A cred \in IssuedCredentials : ValidateClient(clients, cred[1], cred[2]) = None

-----------------------------------------------------------------------------
\* the response to a /token request made at time t on the store a response
\* left
OutcomeAfter(out, t, req) == token_endpoint(clients, out.auth_codes, out.refresh_tokens, out.minted, t, req)

\* C27: every failing /token request, the one that finds its code expired
\* excepted, leaves the store as it was: InvalidClient, UnsupportedGrantType,
\* a missing or unknown code, a missing or wrong code_verifier, a missing,
\* unknown or foreign refresh token delete nothing and create nothing.  A
\* failed PKCE attempt leaves the code redeemable: the exchange with the
\* right verifier succeeds then and at every time up to the code's expiry.
C27_FailureLeavesStore ==
    \A req \in FrameTokenRequests : \A out \in {TokenOutcome(req)} :
        (out.status # 200 /\ out.detail # "Authorization code expired") =>
           /\ out.body = None
           /\ out.auth_codes = auth_codes
           /\ out.refresh_tokens = refresh_tokens
           /\ out.minted = minted.rt
           /\ out.detail \in {"Code verifier required", "Invalid code verifier"} =>
                 \A t \in {now, auth_codes[req.code[1]].expires_at} :
                    OutcomeAfter(out, t, [req EXCEPT !.code_verifier = Some("abc123")]).status
                       = 200

\* the clock stands at the expiry of a code stored with an S256 challenge: an
\* exchange with a wrong verifier is refused, one without a verifier is
\* refused, and the exchange with the right verifier still succeeds
C27_Witness ==
    \E req \in FrameTokenRequests :
        /\ req.grant_type = "authorization_code"
        /\ req.code # None
        /\ req.code[1] \in DOMAIN auth_codes
        /\ auth_codes[req.code[1]].expires_at = now
        /\ req.code_verifier = Some("xyz789")
        /\ TokenOutcome(req).detail = "Invalid code verifier"
        /\ TokenOutcome([req EXCEPT !.code_verifier = None]).detail = "Code verifier required"
        /\ TokenOutcome([req EXCEPT !.code_verifier = Some("abc123")]).status = 200

-----------------------------------------------------------------------------
\* the refresh token a refresh token descends from by rotation: the one an
\* authorization_code exchange handed out
RECURSIVE OriginOf(_)
OriginOf(rt) ==
    IF \E r \in rotations : r.new = rt
    THEN OriginOf((CHOOSE r \in rotations : r.new = rt).old)
    ELSE rt

\* the successful exchanges a refresh token descends from
ExchangesOf(rt) == {g \in grants : g.refresh_token = OriginOf(rt)}

\* C28: refresh-token lineage under sequential requests.  Every refresh
\* token in the store descends from exactly one successful
\* authorization_code exchange and carries that exchange's client_id and
\* scope; there are as many refresh tokens in the store as there were
\* successful authorization_code exchanges; and, refresh tokens having no
\* expiry, each is redeemable by its client at any time.
C28_RefreshLineage ==
    /\ \A rt \in DOMAIN refresh_tokens :
          /\ Cardinality(ExchangesOf(rt)) = 1
          /\ \A g \in ExchangesOf(rt) :
                /\ refresh_tokens[rt].client_id = g.client_id
                /\ refresh_tokens[rt].scope = g.scope
          /\ \A req \in RefreshGrantRequests :
                (req.refresh_token = Some(rt) /\ req.client_id = refresh_tokens[rt].client_id) =>
                   TokenOutcome(req).status = 200
    /\ Cardinality(DOMAIN refresh_tokens) = Cardinality(grants)

\* a code was exchanged and its refresh token rotated, the clock has since
\* moved past a code's lifetime, and the successor is the one refresh token
\* in the store, bound to the client and scope of the exchange
C28_Witness ==
    /\ now > AuthCodeTTL
    /\ \E r \in rotations : \E g \in grants :
          /\ g.refresh_token = r.old
          /\ r.new \in DOMAIN refresh_tokens
          /\ refresh_tokens[r.new].created_at = 0
          /\ refresh_tokens[r.new].scope = "projects:read"
          /\ ExchangesOf(r.new) = {g}
          /\ DOMAIN refresh_tokens = {r.new}

-----------------------------------------------------------------------------
\* the cleanup run at time t would remove the code
SweptAt(code, t) == code \notin DOMAIN cleanup_expired_codes(auth_codes, t).table

\* the exchange of the code made at time t by a registered client would be
\* refused as expired
RejectedAsExpiredAt(req, t) ==
    token_endpoint(clients, auth_codes, refresh_tokens, minted.rt, t, req).detail
        = "Authorization code expired"

\* C29: the cleanup and the exchange agree on the expiry boundary.  For every
\* stored code and every time t (now, and the instants just before, at and
\* just after the code's expiry), the cleanup at t removes the code if and
\* only if an exchange at t is refused as expired; at t = expires_at the code
\* is neither removed nor refused as expired, and one tick later it is both.
C29_SweepAgreesWithExchange ==
    \A req \in ScopeCodeGrantRequests :
        req.code[1] \in DOMAIN auth_codes =>
           \A code \in {req.code[1]} : \A e \in {auth_codes[req.code[1]].expires_at} :
              /\ \A t \in {now, e - 1, e, e + 1} :
                    SweptAt(code, t) <=> RejectedAsExpiredAt(req, t)
              /\ ~SweptAt(code, e) /\ ~RejectedAsExpiredAt(req, e)
              /\ SweptAt(code, e + 1) /\ RejectedAsExpiredAt(req, e + 1)

\* the clock stands at the expiry of a code; the cleanup has just run and
\* left the code in the store, and its exchange succeeds
C29_Witness ==
    /\ swept.runs > 0
    /\ swept.at = now
    /\ \E req \in ScopeCodeGrantRequests :
          /\ req.code[1] \in DOMAIN auth_codes
          /\ auth_codes[req.code[1]].expires_at = now
          /\ ~SweptAt(req.code[1], now)
          /\ TokenOutcome(req).status = 200

====
